---- MODULE Spec2Model ----
(***************************************************************************)
(* Intel 8080 (KR580VM80A) core of src/i8080.js as a state machine.        *)
(*                                                                         *)
(* The fields of the I8080 object are the variables.  One action,          *)
(* Instruction, is one call of I8080.prototype.instruction(): the opcode   *)
(* fetch, the handler of the dispatch table and the iff_pending            *)
(* bookkeeping of execute().  The handlers are operators over a record     *)
(* "this" holding the fields; an operator that returns a value in the      *)
(* source leaves it in the field ret.                                      *)
(*                                                                         *)
(* Memory is the host's RAM (Memory of the test driver).  The image the    *)
(* host loaded is arbitrary: a byte that no instruction has looked at yet  *)
(* is chosen when it is first read and stays in mem from then on.          *)
(***************************************************************************)
EXTENDS Integers, Sequences, FiniteSets, TLC

VARIABLES
    pc, sp, regs,               \* this.pc, this.sp, this.regs[0..7]
    sf, zf, hf, pf, cf,         \* the five flags, as the JavaScript values stored
    iff, iff_pending,           \* interrupt flip-flop and the EI countdown
    cpu_cycles, vcycles,        \* cycle counts of the last instruction
    last_opcode,                \* this.last_opcode
    mem,                        \* Memory.mem, the part of the image known so far
    bus,                        \* back-end calls made by the last call of the host
    result,                     \* the value the last instruction() returned
    pre,                        \* the fields when the last instruction() was entered
    mid,                        \* the fields when the handler returned, inside execute()
    steps,                      \* number of instruction() and jump() calls so far
    origin,                     \* the fields when the run started
    harness                     \* the locals of execute_test, when it drives the run

cpuvars == <<pc, sp, regs, sf, zf, hf, pf, cf, iff, iff_pending,
             cpu_cycles, vcycles, last_opcode>>
vars == <<pc, sp, regs, sf, zf, hf, pf, cf, iff, iff_pending,
          cpu_cycles, vcycles, last_opcode, mem, bus, result, pre, mid, steps,
          origin, harness>>

----------------------------------------------------------------------------
(* JavaScript values and operators                                         *)

\* A flag field holds either a number or a boolean; a record keeps the two apart.
JSNum(n)  == [t |-> "number",  v |-> n]
JSBool(b) == [t |-> "boolean", v |-> IF b THEN 1 ELSE 0]
ToNumber(x)  == x.v
ToBoolean(x) == x.v # 0
\* !x
JSNot(x) == JSBool(~ToBoolean(x))
\* x == y on a number and a boolean compares the numbers
LooseEq(x, y) == ToNumber(x) = ToNumber(y)

\* the value of a field never assigned
Undefined == 0 - 1

Pow2(k) == 2 ^ k
\* the low 30 bits of an int32 in two's complement
Low30(x) == x % 1073741824

RECURSIVE BitAnd(_, _)
BitAnd(x, y) ==
    IF x = 0 \/ y = 0 THEN 0
    ELSE (x % 2) * (y % 2) + 2 * BitAnd(x \div 2, y \div 2)

RECURSIVE BitOr(_, _)
BitOr(x, y) ==
    IF x = 0 THEN y
    ELSE IF y = 0 THEN x
    ELSE (IF x % 2 = 1 \/ y % 2 = 1 THEN 1 ELSE 0) + 2 * BitOr(x \div 2, y \div 2)

RECURSIVE BitXor(_, _)
BitXor(x, y) ==
    IF x = 0 THEN y
    ELSE IF y = 0 THEN x
    ELSE ((x + y) % 2) + 2 * BitXor(x \div 2, y \div 2)

\* x & y, x | y, x ^ y, ~x, x << k, x >> k on int32 operands.  Every use in the
\* source has one operand of & in 0 .. 2^30 - 1 and non-negative operands of | ^ << >>.
And(x, y) == BitAnd(Low30(x), Low30(y))
Or(x, y)  == BitOr(x, y)
Xor(x, y) == BitXor(x, y)
Not(x)    == 0 - x - 1
Shl(x, k) == x * Pow2(k)
Shr(x, k) == x \div Pow2(k)

----------------------------------------------------------------------------
(* The object                                                              *)

NoMiss == 0 - 1
IoMiss == 0 - 2

\* the fields as one record, over the host's RAM m
Here(m) ==
    [pc |-> pc, sp |-> sp, regs |-> regs,
     sf |-> sf, zf |-> zf, hf |-> hf, pf |-> pf, cf |-> cf,
     iff |-> iff, iff_pending |-> iff_pending,
     cpu_cycles |-> cpu_cycles, vcycles |-> vcycles, last_opcode |-> last_opcode,
     mem |-> m]

\* "this" on entry to a method: the fields, the back-end calls made so far (bus),
\* the value the I/O device will return (inp), the return value of the last method
\* (ret) and the first back-end read whose value is not chosen yet (miss)
This(m, inp) ==
    [pc |-> pc, sp |-> sp, regs |-> regs,
     sf |-> sf, zf |-> zf, hf |-> hf, pf |-> pf, cf |-> cf,
     iff |-> iff, iff_pending |-> iff_pending,
     cpu_cycles |-> cpu_cycles, vcycles |-> vcycles, last_opcode |-> last_opcode,
     mem |-> m, bus |-> <<>>, inp |-> inp, ret |-> 0, miss |-> NoMiss,
     pre |-> Here(m), mid |-> Here(m)]

Fields(s) ==
    [pc |-> s.pc, sp |-> s.sp, regs |-> s.regs,
     sf |-> s.sf, zf |-> s.zf, hf |-> s.hf, pf |-> s.pf, cf |-> s.cf,
     iff |-> s.iff, iff_pending |-> s.iff_pending,
     cpu_cycles |-> s.cpu_cycles, vcycles |-> s.vcycles, last_opcode |-> s.last_opcode,
     mem |-> s.mem]

\* Memory.read / Memory.write of the host
MemoryRead(s, addr, stackrq) ==
    LET a == And(addr, 65535) IN
    IF a \in DOMAIN s.mem
    THEN [s EXCEPT !.bus = Append(@, <<"read", addr, stackrq>>), !.ret = s.mem[a]]
    ELSE [s EXCEPT !.bus = Append(@, <<"read", addr, stackrq>>), !.ret = 0,
                   !.miss = IF @ = NoMiss THEN a ELSE @]

MemoryWrite(s, addr, w8, stackrq) ==
    LET a == And(addr, 65535) IN
    [s EXCEPT !.bus = Append(@, <<"write", addr, w8, stackrq>>),
              !.mem = [x \in (DOMAIN s.mem) \cup {a} |-> IF x = a THEN w8 ELSE s.mem[x]]]

memory_read_byte(s, addr, stackrq) ==
    LET t == MemoryRead(s, And(addr, 65535), stackrq) IN
    [t EXCEPT !.ret = And(t.ret, 255)]

\* a write that hands the address and the value on as they come
memory_write_byte_unmasked(s, addr, w8, stackrq) == MemoryWrite(s, addr, w8, stackrq)

memory_write_byte(s, addr, w8, stackrq) ==
    MemoryWrite(s, And(addr, 65535), And(w8, 255), stackrq)

memory_read_word(s, addr, stackrq) ==
    LET t1 == memory_read_byte(s, addr, stackrq)
        t2 == memory_read_byte(t1, addr + 1, stackrq)
    IN [t2 EXCEPT !.ret = Or(t1.ret, Shl(t2.ret, 8))]

memory_write_word(s, addr, w16, stackrq) ==
    LET t1 == memory_write_byte(s, addr, And(w16, 255), stackrq)
    IN memory_write_byte(t1, addr + 1, Shr(w16, 8), stackrq)

rp(s, r) == IF r # 6 THEN Or(Shl(s.regs[r], 8), s.regs[r + 1]) ELSE s.sp
bc(s) == rp(s, 0)
de(s) == rp(s, 2)
hl(s) == rp(s, 4)

reg(s, r) ==
    IF r # 6 THEN [s EXCEPT !.ret = s.regs[r]]
    ELSE memory_read_byte(s, hl(s), "undefined")

\* a set_reg that keeps a copy of M in the register file
set_reg_keeps_m(s, r, w8) ==
    LET w == And(w8, 255) IN
    IF r # 6 THEN [s EXCEPT !.regs[r] = w]
    ELSE memory_write_byte([s EXCEPT !.regs[r] = w], hl(s), w, "undefined")

set_reg(s, r, w8) ==
    LET w == And(w8, 255) IN
    IF r # 6 THEN [s EXCEPT !.regs[r] = w]
    ELSE memory_write_byte(s, hl(s), w, "undefined")

set_rp(s, r, w16) ==
    IF r # 6 THEN set_reg(set_reg(s, r, Shr(w16, 8)), r + 1, And(w16, 255))
    ELSE [s EXCEPT !.sp = w16]

\* a fetch that lets PC run past 0xFFFF
next_pc_byte_unwrapped(s) ==
    LET t == memory_read_byte(s, s.pc, "undefined") IN
    [t EXCEPT !.pc = s.pc + 1]

next_pc_byte(s) ==
    LET t == memory_read_byte(s, s.pc, "undefined") IN
    [t EXCEPT !.pc = And(s.pc + 1, 65535)]

next_pc_word(s) ==
    LET t1 == next_pc_byte(s)
        t2 == next_pc_byte(t1)
    IN [t2 EXCEPT !.ret = Or(t1.ret, Shl(t2.ret, 8))]

----------------------------------------------------------------------------
(* Flag arithmetic                                                         *)

parity_table_entries ==
    << 1, 0, 0, 1, 0, 1, 1, 0, 0, 1, 1, 0, 1, 0, 0, 1,
       0, 1, 1, 0, 1, 0, 0, 1, 1, 0, 0, 1, 0, 1, 1, 0,
       0, 1, 1, 0, 1, 0, 0, 1, 1, 0, 0, 1, 0, 1, 1, 0,
       1, 0, 0, 1, 0, 1, 1, 0, 0, 1, 1, 0, 1, 0, 0, 1,
       0, 1, 1, 0, 1, 0, 0, 1, 1, 0, 0, 1, 0, 1, 1, 0,
       1, 0, 0, 1, 0, 1, 1, 0, 0, 1, 1, 0, 1, 0, 0, 1,
       1, 0, 0, 1, 0, 1, 1, 0, 0, 1, 1, 0, 1, 0, 0, 1,
       0, 1, 1, 0, 1, 0, 0, 1, 1, 0, 0, 1, 0, 1, 1, 0,
       0, 1, 1, 0, 1, 0, 0, 1, 1, 0, 0, 1, 0, 1, 1, 0,
       1, 0, 0, 1, 0, 1, 1, 0, 0, 1, 1, 0, 1, 0, 0, 1,
       1, 0, 0, 1, 0, 1, 1, 0, 0, 1, 1, 0, 1, 0, 0, 1,
       0, 1, 1, 0, 1, 0, 0, 1, 1, 0, 0, 1, 0, 1, 1, 0,
       1, 0, 0, 1, 0, 1, 1, 0, 0, 1, 1, 0, 1, 0, 0, 1,
       0, 1, 1, 0, 1, 0, 0, 1, 1, 0, 0, 1, 0, 1, 1, 0,
       0, 1, 1, 0, 1, 0, 0, 1, 1, 0, 0, 1, 0, 1, 1, 0,
       1, 0, 0, 1, 0, 1, 1, 0, 0, 1, 1, 0, 1, 0, 0, 1 >>
\* a parity table of odd parity
parity_table_odd(i) == 1 - parity_table_entries[i + 1]

parity_table(i) == parity_table_entries[i + 1]

half_carry_table_entries == << 0, 0, 1, 0, 1, 0, 1, 1 >>
half_carry_table(i) == half_carry_table_entries[i + 1]

sub_half_carry_table_entries == << 0, 1, 1, 1, 0, 0, 0, 1 >>
sub_half_carry_table(i) == sub_half_carry_table_entries[i + 1]

a(s) == reg(s, 7).ret
set_a(s, v) == set_reg(s, 7, v)
set_h(s, v) == set_reg(s, 4, v)
set_l(s, v) == set_reg(s, 5, v)
set_d(s, v) == set_reg(s, 2, v)
set_e(s, v) == set_reg(s, 3, v)

inr(s, r) ==
    LET t == reg(s, r)
        v == And(t.ret + 1, 255)
        u == set_reg(t, r, v)
    IN [u EXCEPT !.sf = JSBool(And(v, 128) # 0),
                 !.zf = JSBool(v = 0),
                 !.hf = JSBool(And(v, 15) = 0),
                 !.pf = JSNum(parity_table(v))]

dcr(s, r) ==
    LET t == reg(s, r)
        v == And(t.ret - 1, 255)
        u == set_reg(t, r, v)
    IN [u EXCEPT !.sf = JSBool(And(v, 128) # 0),
                 !.zf = JSBool(v = 0),
                 !.hf = JSBool(~(And(v, 15) = 15)),
                 !.pf = JSNum(parity_table(v))]

\* an addition that takes the half carry from the sum's low nibble wrapping to zero
add_im8_hf_of_sum(s, v, carry) ==
    LET a0 == a(s)
        w16 == a0 + v + ToNumber(carry)
        a1 == And(w16, 255)
        t == [s EXCEPT !.sf = JSBool(And(a1, 128) # 0),
                       !.zf = JSBool(a1 = 0),
                       !.hf = JSBool(And(a1, \h0F) = 0),
                       !.pf = JSNum(parity_table(a1)),
                       !.cf = JSBool(And(w16, 256) # 0)]
    IN set_a(t, a1)

\* an addition that never reports a carry out of bit 3
add_im8_hf_clear(s, v, carry) ==
    LET a0 == a(s)
        w16 == a0 + v + ToNumber(carry)
        a1 == And(w16, 255)
        t == [s EXCEPT !.sf = JSBool(And(a1, 128) # 0),
                       !.zf = JSBool(a1 = 0),
                       !.hf = JSNum(0),
                       !.pf = JSNum(parity_table(a1)),
                       !.cf = JSBool(And(w16, 256) # 0)]
    IN set_a(t, a1)

add_im8(s, v, carry) ==
    LET a0 == a(s)
        w16 == a0 + v + ToNumber(carry)
        index == Or(Or(Shr(And(a0, 136), 1), Shr(And(v, 136), 2)), Shr(And(w16, 136), 3))
        a1 == And(w16, 255)
        t == [s EXCEPT !.sf = JSBool(And(a1, 128) # 0),
                       !.zf = JSBool(a1 = 0),
                       !.hf = JSNum(half_carry_table(And(index, 7))),
                       !.pf = JSNum(parity_table(a1)),
                       !.cf = JSBool(And(w16, 256) # 0)]
    IN set_a(t, a1)

add(s, r, carry) ==
    LET t == reg(s, r) IN add_im8(t, t.ret, carry)

\* a subtraction that stores the borrow table's entry without inverting it
sub_im8_hf_raw(s, v, carry) ==
    LET a0 == a(s)
        w16 == And(a0 - v - ToNumber(carry), 65535)
        index == Or(Or(Shr(And(a0, 136), 1), Shr(And(v, 136), 2)), Shr(And(w16, 136), 3))
        a1 == And(w16, 255)
        t == [s EXCEPT !.sf = JSBool(And(a1, 128) # 0),
                       !.zf = JSBool(a1 = 0),
                       !.hf = JSNum(sub_half_carry_table(And(index, 7))),
                       !.pf = JSNum(parity_table(a1)),
                       !.cf = JSBool(And(w16, 256) # 0)]
    IN set_a(t, a1)

sub_im8(s, v, carry) ==
    LET a0 == a(s)
        w16 == And(a0 - v - ToNumber(carry), 65535)
        index == Or(Or(Shr(And(a0, 136), 1), Shr(And(v, 136), 2)), Shr(And(w16, 136), 3))
        a1 == And(w16, 255)
        t == [s EXCEPT !.sf = JSBool(And(a1, 128) # 0),
                       !.zf = JSBool(a1 = 0),
                       !.hf = JSBool(sub_half_carry_table(And(index, 7)) = 0),
                       !.pf = JSNum(parity_table(a1)),
                       !.cf = JSBool(And(w16, 256) # 0)]
    IN set_a(t, a1)

sub(s, r, carry) ==
    LET t == reg(s, r) IN sub_im8(t, t.ret, carry)

\* a compare that subtracts with the carry flag as borrow
cmp_im8_borrows(s, v) ==
    LET a0 == a(s) IN set_a(sub_im8(s, v, s.cf), a0)

cmp_im8(s, v) ==
    LET a0 == a(s) IN set_a(sub_im8(s, v, JSNum(0)), a0)

cmp(s, r) ==
    LET t == reg(s, r) IN cmp_im8(t, t.ret)

ana_im8(s, v) ==
    LET a0 == a(s)
        a1 == And(a0, v)
        t == [s EXCEPT !.hf = JSBool(And(Or(a0, v), 8) # 0),
                       !.sf = JSBool(And(a1, 128) # 0),
                       !.zf = JSBool(a1 = 0),
                       !.pf = JSNum(parity_table(a1)),
                       !.cf = JSNum(0)]
    IN set_a(t, a1)

ana(s, r) ==
    LET t == reg(s, r) IN ana_im8(t, t.ret)

xra_im8(s, v) ==
    LET a1 == Xor(a(s), v)
        t == [s EXCEPT !.sf = JSBool(And(a1, 128) # 0),
                       !.zf = JSBool(a1 = 0),
                       !.hf = JSNum(0),
                       !.pf = JSNum(parity_table(a1)),
                       !.cf = JSNum(0)]
    IN set_a(t, a1)

xra(s, r) ==
    LET t == reg(s, r) IN xra_im8(t, t.ret)

ora_im8(s, v) ==
    LET a1 == Or(a(s), v)
        t == [s EXCEPT !.sf = JSBool(And(a1, 128) # 0),
                       !.zf = JSBool(a1 = 0),
                       !.hf = JSNum(0),
                       !.pf = JSNum(parity_table(a1)),
                       !.cf = JSNum(0)]
    IN set_a(t, a1)

ora(s, r) ==
    LET t == reg(s, r) IN ora_im8(t, t.ret)

\* a dad that masks the sum before it looks at bit 16
dad_masked_sum(s, r) ==
    LET w == And(hl(s) + rp(s, r), 65535)
        t == [s EXCEPT !.cf = JSBool(And(w, 65536) # 0)]
    IN set_l(set_h(t, Shr(w, 8)), And(w, 255))

dad(s, r) ==
    LET w == hl(s) + rp(s, r)
        t == [s EXCEPT !.cf = JSBool(And(w, 65536) # 0)]
    IN set_l(set_h(t, Shr(w, 8)), And(w, 255))

\* a push that stores at the old SP and decrements afterwards
push_post_decrement(s, v) ==
    LET t == memory_write_word(s, s.sp, v, "true")
    IN [t EXCEPT !.sp = And(s.sp - 2, 65535)]

push(s, v) ==
    LET t == [s EXCEPT !.sp = And(s.sp - 2, 65535)]
    IN memory_write_word(t, t.sp, v, "true")

\* a pop that reads the stack as ordinary data
pop_unmarked(s) ==
    LET t == memory_read_word(s, s.sp, "undefined")
    IN [t EXCEPT !.sp = And(s.sp + 2, 65535)]

pop(s) ==
    LET t == memory_read_word(s, s.sp, "true")
    IN [t EXCEPT !.sp = And(s.sp + 2, 65535)]

\* a call that sets PC first and pushes it afterwards
call_pushes_target(s, w16) == push([s EXCEPT !.pc = w16], w16)

call(s, w16) == [push(s, s.pc) EXCEPT !.pc = w16]

ret(s) == LET t == pop(s) IN [t EXCEPT !.pc = t.ret]

rst(s, addr) == [push(s, s.pc) EXCEPT !.pc = addr]

F_CARRY == 1
F_UN1 == 2
F_PARITY == 4
F_UN3 == 8
F_HCARRY == 16
F_UN5 == 32
F_ZERO == 64
F_NEG == 128

\* a flag byte with the five flags only, bit 1 not forced
store_flags_bare(s) ==
    LET f1 == IF ToBoolean(s.sf) THEN Or(0, F_NEG) ELSE And(0, Not(F_NEG))
        f2 == IF ToBoolean(s.zf) THEN Or(f1, F_ZERO) ELSE And(f1, Not(F_ZERO))
        f3 == IF ToBoolean(s.hf) THEN Or(f2, F_HCARRY) ELSE And(f2, Not(F_HCARRY))
        f4 == IF ToBoolean(s.pf) THEN Or(f3, F_PARITY) ELSE And(f3, Not(F_PARITY))
    IN IF ToBoolean(s.cf) THEN Or(f4, F_CARRY) ELSE And(f4, Not(F_CARRY))

store_flags(s) ==
    LET f1 == IF ToBoolean(s.sf) THEN Or(0, F_NEG) ELSE And(0, Not(F_NEG))
        f2 == IF ToBoolean(s.zf) THEN Or(f1, F_ZERO) ELSE And(f1, Not(F_ZERO))
        f3 == IF ToBoolean(s.hf) THEN Or(f2, F_HCARRY) ELSE And(f2, Not(F_HCARRY))
        f4 == IF ToBoolean(s.pf) THEN Or(f3, F_PARITY) ELSE And(f3, Not(F_PARITY))
        f5 == IF ToBoolean(s.cf) THEN Or(f4, F_CARRY) ELSE And(f4, Not(F_CARRY))
        f6 == Or(f5, F_UN1)
        f7 == And(f6, Not(F_UN3))
    IN And(f7, Not(F_UN5))

retrieve_flags(s, f) ==
    [s EXCEPT !.sf = JSNum(IF And(f, F_NEG) # 0 THEN 1 ELSE 0),
              !.zf = JSNum(IF And(f, F_ZERO) # 0 THEN 1 ELSE 0),
              !.hf = JSNum(IF And(f, F_HCARRY) # 0 THEN 1 ELSE 0),
              !.pf = JSNum(IF And(f, F_PARITY) # 0 THEN 1 ELSE 0),
              !.cf = JSNum(IF And(f, F_CARRY) # 0 THEN 1 ELSE 0)]

T4 == 4
T43 == 8
T5 == 8
T433 == 12
T43333 == 20
T4333 == 16
T533 == 16
T53333 == 24
T43335 == 24

cycles(s, v, c) == [s EXCEPT !.vcycles = v, !.cpu_cycles = c]

----------------------------------------------------------------------------
(* The I/O back-end                                                        *)

io_input(s, port) ==
    IF s.inp # <<>>
    THEN [s EXCEPT !.bus = Append(@, <<"input", port>>), !.ret = Head(s.inp),
                   !.inp = Tail(@)]
    ELSE [s EXCEPT !.bus = Append(@, <<"input", port>>), !.ret = 0,
                   !.miss = IF @ = NoMiss THEN IoMiss ELSE @]

io_output(s, port, w8) == [s EXCEPT !.bus = Append(@, <<"output", port, w8>>)]

io_interrupt(s, enabled) == [s EXCEPT !.bus = Append(@, <<"interrupt", enabled>>)]

alert(s, opcode) == [s EXCEPT !.bus = Append(@, <<"alert", opcode>>)]

----------------------------------------------------------------------------
(* The handlers of initHandlers, in the order of the source                *)

h_nop(s, opcode) == cycles(s, T4, 4)

h_lxi(s, opcode) ==
    LET t == next_pc_word(cycles(s, T433, 10))
    IN set_rp(t, Shr(opcode, 3), t.ret)

h_stax(s, opcode) ==
    LET t == cycles(s, T43, 7)
    IN memory_write_byte(t, rp(t, Shr(opcode, 3)), a(t), "undefined")

\* an INX that does not wrap the sum to 16 bits
h_inx_unmasked(s, opcode) ==
    LET t == cycles(s, T5, 5)
        r == Shr(opcode, 3)
    IN set_rp(t, r, rp(t, r) + 1)

h_inx(s, opcode) ==
    LET t == cycles(s, T5, 5)
        r == Shr(opcode, 3)
    IN set_rp(t, r, And(rp(t, r) + 1, \hFFFF))

h_inr(s, opcode) == inr(cycles(s, T5, 5), Shr(opcode, 3))

h_inr_m(s, opcode) == inr(cycles(s, T433, 10), Shr(opcode, 3))

h_dcr(s, opcode) == dcr(cycles(s, T5, 5), Shr(opcode, 3))

h_dcr_m(s, opcode) == dcr(cycles(s, T433, 10), Shr(opcode, 3))

h_mvi(s, opcode) ==
    LET t == next_pc_byte(cycles(s, T43, 7))
    IN set_reg(t, Shr(opcode, 3), t.ret)

h_mvi_m(s, opcode) ==
    LET t == next_pc_byte(cycles(s, T433, 10))
    IN set_reg(t, Shr(opcode, 3), t.ret)

\* an RLC that rotates through the carry, as RAL does
h_rlc_through_carry(s, opcode) ==
    LET t == cycles(s, T4, 4)
        w8 == t.cf
        u == [t EXCEPT !.cf = JSBool(And(a(t), \h80) # 0)]
    IN set_a(u, Or(And(Shl(a(u), 1), \hFF), ToNumber(w8)))

h_rlc(s, opcode) ==
    LET t == cycles(s, T4, 4)
        a0 == a(t)
        u == [t EXCEPT !.cf = JSBool(And(a0, \h80) # 0)]
    IN set_a(u, Or(And(Shl(a0, 1), \hFF), ToNumber(u.cf)))

h_dad(s, opcode) == dad(cycles(s, T433, 10), Shr(And(opcode, \h30), 3))

h_ldax(s, opcode) ==
    LET t == cycles(s, T43, 7)
        r == Shr(And(opcode, \h10), 3)
        u == memory_read_byte(t, rp(t, r), "undefined")
    IN set_a(u, u.ret)

h_dcx(s, opcode) ==
    LET t == cycles(s, T5, 5)
        r == Shr(And(opcode, \h30), 3)
    IN set_rp(t, r, And(rp(t, r) - 1, \hFFFF))

h_rrc(s, opcode) ==
    LET t == cycles(s, T4, 4)
        u == [t EXCEPT !.cf = JSNum(And(a(t), \h01))]
    IN set_a(u, Or(Shr(a(u), 1), Shl(ToNumber(u.cf), 7)))

h_ral(s, opcode) ==
    LET t == cycles(s, T4, 4)
        w8 == t.cf
        u == [t EXCEPT !.cf = JSBool(And(a(t), \h80) # 0)]
    IN set_a(u, Or(Shl(a(u), 1), ToNumber(w8)))

h_rar(s, opcode) ==
    LET t == cycles(s, T4, 4)
        w8 == t.cf
        u == [t EXCEPT !.cf = JSNum(And(a(t), \h01))]
    IN set_a(u, Or(Shr(a(u), 1), Shl(ToNumber(w8), 7)))

h_shld(s, opcode) ==
    LET t == next_pc_word(cycles(s, T43333, 16))
        w16 == t.ret
        u == memory_write_byte(t, w16, reg(t, 5).ret, "undefined")
    IN memory_write_byte(u, w16 + 1, reg(u, 4).ret, "undefined")

\* a DAA whose 0x60 correction looks at the nibbles only, not at CF
h_daa_nibbles_only(s, opcode) ==
    LET t == cycles(s, T4, 4)
        a0 == a(t)
        add1 == IF ToBoolean(t.hf) \/ And(a0, \h0F) > 9 THEN \h06 ELSE 0
        high == Shr(a0, 4) > 9 \/ (Shr(a0, 4) >= 9 /\ And(a0, \h0F) > 9)
        add2 == IF high THEN Or(add1, \h60) ELSE add1
        carry == IF high THEN JSNum(1) ELSE t.cf
        u == add_im8(t, add2, JSNum(0))
    IN [u EXCEPT !.pf = JSNum(parity_table(a(u))), !.cf = carry]

\* a DAA that leaves CF as the correcting addition set it
h_daa_cf_of_add(s, opcode) ==
    LET t == cycles(s, T4, 4)
        a0 == a(t)
        add1 == IF ToBoolean(t.hf) \/ And(a0, \h0F) > 9 THEN \h06 ELSE 0
        high == ToBoolean(t.cf) \/ Shr(a0, 4) > 9
                    \/ (Shr(a0, 4) >= 9 /\ And(a0, \h0F) > 9)
        add2 == IF high THEN Or(add1, \h60) ELSE add1
        u == add_im8(t, add2, JSNum(0))
    IN [u EXCEPT !.pf = JSNum(parity_table(a(u)))]

h_daa(s, opcode) ==
    LET t == cycles(s, T4, 4)
        a0 == a(t)
        add1 == IF ToBoolean(t.hf) \/ And(a0, \h0F) > 9 THEN \h06 ELSE 0
        high == ToBoolean(t.cf) \/ Shr(a0, 4) > 9
                    \/ (Shr(a0, 4) >= 9 /\ And(a0, \h0F) > 9)
        add2 == IF high THEN Or(add1, \h60) ELSE add1
        carry == IF high THEN JSNum(1) ELSE t.cf
        u == add_im8(t, add2, JSNum(0))
    IN [u EXCEPT !.pf = JSNum(parity_table(a(u))), !.cf = carry]

h_lhld(s, opcode) ==
    LET t == next_pc_word(cycles(s, T43333, 16))
        w16 == t.ret
        u1 == memory_read_byte(t, w16, "undefined")
        u2 == [u1 EXCEPT !.regs[5] = u1.ret]
        u3 == memory_read_byte(u2, w16 + 1, "undefined")
    IN [u3 EXCEPT !.regs[4] = u3.ret]

h_cma(s, opcode) ==
    LET t == cycles(s, T4, 4) IN set_a(t, Xor(a(t), \hFF))

h_sta(s, opcode) ==
    LET t == next_pc_word(cycles(s, T4333, 13))
    IN memory_write_byte(t, t.ret, a(t), "undefined")

h_stc(s, opcode) == [cycles(s, T4, 4) EXCEPT !.cf = JSNum(1)]

h_lda(s, opcode) ==
    LET t == next_pc_word(cycles(s, T4333, 13))
        u == memory_read_byte(t, t.ret, "undefined")
    IN set_a(u, u.ret)

\* a CMC that clears the carry
h_cmc_clears(s, opcode) == [cycles(s, T4, 4) EXCEPT !.cf = JSNum(0)]

h_cmc(s, opcode) == [cycles(s, T4, 4) EXCEPT !.cf = JSNot(s.cf)]

\* a HLT that leaves PC behind the opcode
h_hlt_runs_on(s, opcode) == cycles(s, T4, 4)

h_hlt(s, opcode) == [cycles(s, T4, 4) EXCEPT !.pc = And(s.pc - 1, \hFFFF)]

\* opcode & 0x08 ? that.cf : 0
carry_in(s, opcode) == IF And(opcode, \h08) # 0 THEN s.cf ELSE JSNum(0)

h_add(s, opcode) ==
    LET t == cycles(s, T4, 4) IN add(t, And(opcode, \h07), carry_in(t, opcode))

h_add_m(s, opcode) ==
    LET t == cycles(s, T43, 7) IN add(t, And(opcode, \h07), carry_in(t, opcode))

h_sub(s, opcode) ==
    LET t == cycles(s, T4, 4) IN sub(t, And(opcode, \h07), carry_in(t, opcode))

h_sub_m(s, opcode) ==
    LET t == cycles(s, T43, 7) IN sub(t, And(opcode, \h07), carry_in(t, opcode))

h_ana(s, opcode) == ana(cycles(s, T4, 4), And(opcode, \h07))

h_ana_m(s, opcode) == ana(cycles(s, T43, 7), And(opcode, \h07))

h_xra(s, opcode) == xra(cycles(s, T4, 4), And(opcode, \h07))

h_xra_m(s, opcode) == xra(cycles(s, T43, 7), And(opcode, \h07))

h_ora(s, opcode) == ora(cycles(s, T4, 4), And(opcode, \h07))

h_ora_m(s, opcode) == ora(cycles(s, T43, 7), And(opcode, \h07))

h_cmp(s, opcode) == cmp(cycles(s, T4, 4), And(opcode, \h07))

h_cmp_m(s, opcode) == cmp(cycles(s, T43, 7), And(opcode, \h07))

\* flags[r] == direction, with flags = [zf, cf, pf, sf]
\* a condition that holds when the selected flag is set, whatever bit 3 says
condition_flag_set(s, opcode) ==
    LET flags == <<s.zf, s.cf, s.pf, s.sf>>
        r == And(Shr(opcode, 4), \h03)
    IN ToBoolean(flags[r + 1])

condition(s, opcode) ==
    LET flags == <<s.zf, s.cf, s.pf, s.sf>>
        r == And(Shr(opcode, 4), \h03)
        direction == JSBool(And(opcode, \h08) # 0)
    IN LooseEq(flags[r + 1], direction)

h_rcc(s, opcode) ==
    LET t == cycles(s, T5, 5)
    IN IF condition(s, opcode) THEN ret(cycles(t, T533, 11)) ELSE t

h_pop(s, opcode) ==
    LET r == Shr(And(opcode, \h30), 3)
        t == pop(cycles(s, T433, 10))
        w16 == t.ret
    IN IF r # 6 THEN set_rp(t, r, w16)
       ELSE retrieve_flags(set_a(t, Shr(w16, 8)), And(w16, \hFF))

h_jcc(s, opcode) ==
    LET t == next_pc_word(cycles(s, T433, 10))
    IN [t EXCEPT !.pc = IF condition(s, opcode) THEN t.ret ELSE t.pc]

\* a JMP handler that jumps for 0xC3 only and skips the operand for 0xCB
h_jmp_documented(s, opcode) ==
    LET t == next_pc_word(cycles(s, T433, 10))
    IN IF opcode = \hC3 THEN [t EXCEPT !.pc = t.ret] ELSE t

h_jmp(s, opcode) ==
    LET t == next_pc_word(cycles(s, T433, 10)) IN [t EXCEPT !.pc = t.ret]

h_ccc(s, opcode) ==
    LET t == cycles(next_pc_word(s), T533, 11)
    IN IF condition(s, opcode) THEN call(cycles(t, T53333, 17), t.ret) ELSE t

h_push(s, opcode) ==
    LET r == Shr(And(opcode, \h30), 3)
        t == cycles(s, T533, 11)
        w16 == IF r # 6 THEN rp(t, r) ELSE Or(Shl(a(t), 8), store_flags(t))
    IN push(t, w16)

h_adi(s, opcode) ==
    LET t == next_pc_byte(cycles(s, T43, 7)) IN add_im8(t, t.ret, JSNum(0))

h_rst(s, opcode) == rst(cycles(s, T533, 11), And(opcode, \h38))

h_ret(s, opcode) == ret(cycles(s, T433, 10))

h_call(s, opcode) ==
    LET t == next_pc_word(cycles(s, T53333, 17)) IN call(t, t.ret)

h_aci(s, opcode) ==
    LET t == next_pc_byte(cycles(s, T43, 7)) IN add_im8(t, t.ret, t.cf)

h_out(s, opcode) ==
    LET t == next_pc_byte(cycles(s, T433, 10)) IN io_output(t, t.ret, a(t))

h_sui(s, opcode) ==
    LET t == next_pc_byte(cycles(s, T43, 7)) IN sub_im8(t, t.ret, JSNum(0))

h_in(s, opcode) ==
    LET t == next_pc_byte(cycles(s, T433, 10))
        u == io_input(t, t.ret)
    IN set_a(u, u.ret)

h_sbi(s, opcode) ==
    LET t == next_pc_byte(cycles(s, T43, 7)) IN sub_im8(t, t.ret, t.cf)

\* an XTHL that stores HL before it reads the stack
h_xthl_writes_first(s, opcode) ==
    LET t == memory_write_word(cycles(s, T43335, 18), s.sp, hl(s), "true")
        u == memory_read_word(t, t.sp, "true")
        w16 == u.ret
    IN set_h(set_l(u, And(w16, \hFF)), Shr(w16, 8))

h_xthl(s, opcode) ==
    LET t == memory_read_word(cycles(s, T43335, 18), s.sp, "true")
        w16 == t.ret
        u == memory_write_word(t, t.sp, hl(t), "true")
    IN set_h(set_l(u, And(w16, \hFF)), Shr(w16, 8))

h_ani(s, opcode) ==
    LET t == next_pc_byte(cycles(s, T43, 7)) IN ana_im8(t, t.ret)

h_pchl(s, opcode) == [cycles(s, T5, 5) EXCEPT !.pc = hl(s)]

\* an XCHG that copies without keeping the old byte
h_xchg_no_temp(s, opcode) ==
    LET t == cycles(s, T4, 4)
        t1 == set_l(t, reg(t, 3).ret)
        t2 == set_e(t1, reg(t1, 5).ret)
        t3 == set_h(t2, reg(t2, 2).ret)
    IN set_d(t3, reg(t3, 4).ret)

h_xchg(s, opcode) ==
    LET t == cycles(s, T4, 4)
        w8l == reg(t, 5).ret
        t1 == set_l(t, reg(t, 3).ret)
        t2 == set_e(t1, w8l)
        w8h == reg(t2, 4).ret
        t3 == set_h(t2, reg(t2, 2).ret)
    IN set_d(t3, w8h)

h_xri(s, opcode) ==
    LET t == next_pc_byte(cycles(s, T43, 7)) IN xra_im8(t, t.ret)

\* EI that enables at once: the countdown starts at 1
h_di_ei_at_once(s, opcode) ==
    LET t == cycles(s, T4, 4)
    IN IF And(opcode, \h08) # 0
       THEN [t EXCEPT !.iff_pending = 1]
       ELSE io_interrupt([t EXCEPT !.iff = FALSE], FALSE)

\* EI that adds to the countdown instead of setting it
h_di_ei_adds(s, opcode) ==
    LET t == cycles(s, T4, 4)
    IN IF And(opcode, \h08) # 0
       THEN [t EXCEPT !.iff_pending = @ + 2]
       ELSE io_interrupt([t EXCEPT !.iff = FALSE], FALSE)

\* a DI that notifies the device only when it turns iff off
h_di_ei_on_change(s, opcode) ==
    LET t == cycles(s, T4, 4)
    IN IF And(opcode, \h08) # 0
       THEN [t EXCEPT !.iff_pending = 2]
       ELSE IF s.iff THEN io_interrupt([t EXCEPT !.iff = FALSE], FALSE) ELSE t

h_di_ei(s, opcode) ==
    LET t == cycles(s, T4, 4)
    IN IF And(opcode, \h08) # 0
       THEN [t EXCEPT !.iff_pending = 2]
       ELSE io_interrupt([t EXCEPT !.iff = FALSE], FALSE)

h_ori(s, opcode) ==
    LET t == next_pc_byte(cycles(s, T43, 7)) IN ora_im8(t, t.ret)

h_sphl(s, opcode) == [cycles(s, T5, 5) EXCEPT !.sp = hl(s)]

h_cpi(s, opcode) ==
    LET t == next_pc_byte(cycles(s, T43, 7)) IN cmp_im8(t, t.ret)

h_mov(s, opcode) ==
    LET src == And(opcode, 7)
        dst == And(Shr(opcode, 3), 7)
        t == IF src = 6 \/ dst = 6
             THEN cycles(s, T43, 7)
             ELSE cycles(s, T5, IF src = 6 \/ dst = 6 THEN 7 ELSE 5)
        u == reg(t, src)
    IN set_reg(u, dst, u.ret)

----------------------------------------------------------------------------
(* The dispatch table, execute() and instruction()                         *)

\* h = this.handler[opcode]; if (h) h(opcode) else alert(...)
dispatch(s, opcode) ==
    CASE opcode \in {\h00, \h08, \h10, \h18, \h20, \h28, \h30, \h38} -> h_nop(s, opcode)
      [] opcode \in {\h01, \h11, \h21, \h31} -> h_lxi(s, opcode)
      [] opcode \in {\h02, \h12} -> h_stax(s, opcode)
      [] opcode \in {\h03, \h13, \h23, \h33} -> h_inx(s, opcode)
      [] opcode \in {\h04, \h0C, \h14, \h1C, \h24, \h2C, \h3C} -> h_inr(s, opcode)
      [] opcode \in {\h34} -> h_inr_m(s, opcode)
      [] opcode \in {\h05, \h0D, \h15, \h1D, \h25, \h2D, \h3D} -> h_dcr(s, opcode)
      [] opcode \in {\h35} -> h_dcr_m(s, opcode)
      [] opcode \in {\h06, \h0E, \h16, \h1E, \h26, \h2E, \h3E} -> h_mvi(s, opcode)
      [] opcode \in {\h36} -> h_mvi_m(s, opcode)
      [] opcode \in {\h07} -> h_rlc(s, opcode)
      [] opcode \in {\h09, \h19, \h29, \h39} -> h_dad(s, opcode)
      [] opcode \in {\h0A, \h1A} -> h_ldax(s, opcode)
      [] opcode \in {\h0B, \h1B, \h2B, \h3B} -> h_dcx(s, opcode)
      [] opcode \in {\h0F} -> h_rrc(s, opcode)
      [] opcode \in {\h17} -> h_ral(s, opcode)
      [] opcode \in {\h1F} -> h_rar(s, opcode)
      [] opcode \in {\h22} -> h_shld(s, opcode)
      [] opcode \in {\h27} -> h_daa(s, opcode)
      [] opcode \in {\h2A} -> h_lhld(s, opcode)
      [] opcode \in {\h2F} -> h_cma(s, opcode)
      [] opcode \in {\h32} -> h_sta(s, opcode)
      [] opcode \in {\h37} -> h_stc(s, opcode)
      [] opcode \in {\h3A} -> h_lda(s, opcode)
      [] opcode \in {\h3F} -> h_cmc(s, opcode)
      [] opcode \in {\h76} -> h_hlt(s, opcode)
      [] opcode \in {\h80, \h81, \h82, \h83, \h84, \h85, \h87, \h88, \h89, \h8A, \h8B, \h8C,
                       \h8D, \h8F} -> h_add(s, opcode)
      [] opcode \in {\h86, \h8E} -> h_add_m(s, opcode)
      [] opcode \in {\h90, \h91, \h92, \h93, \h94, \h95, \h97, \h98, \h99, \h9A, \h9B, \h9C,
                       \h9D, \h9F} -> h_sub(s, opcode)
      [] opcode \in {\h96, \h9E} -> h_sub_m(s, opcode)
      [] opcode \in {\hA0, \hA1, \hA2, \hA3, \hA4, \hA5, \hA7} -> h_ana(s, opcode)
      [] opcode \in {\hA6} -> h_ana_m(s, opcode)
      [] opcode \in {\hA8, \hA9, \hAA, \hAB, \hAC, \hAD, \hAF} -> h_xra(s, opcode)
      [] opcode \in {\hAE} -> h_xra_m(s, opcode)
      [] opcode \in {\hB0, \hB1, \hB2, \hB3, \hB4, \hB5, \hB7} -> h_ora(s, opcode)
      [] opcode \in {\hB6} -> h_ora_m(s, opcode)
      [] opcode \in {\hB8, \hB9, \hBA, \hBB, \hBC, \hBD, \hBF} -> h_cmp(s, opcode)
      [] opcode \in {\hBE} -> h_cmp_m(s, opcode)
      [] opcode \in {\hC0, \hC8, \hD0, \hD8, \hE0, \hE8, \hF0, \hF8} -> h_rcc(s, opcode)
      [] opcode \in {\hC1, \hD1, \hE1, \hF1} -> h_pop(s, opcode)
      [] opcode \in {\hC2, \hCA, \hD2, \hDA, \hE2, \hEA, \hF2, \hFA} -> h_jcc(s, opcode)
      [] opcode \in {\hC3, \hCB} -> h_jmp(s, opcode)
      [] opcode \in {\hC4, \hCC, \hD4, \hDC, \hE4, \hEC, \hF4, \hFC} -> h_ccc(s, opcode)
      [] opcode \in {\hC5, \hD5, \hE5, \hF5} -> h_push(s, opcode)
      [] opcode \in {\hC6} -> h_adi(s, opcode)
      [] opcode \in {\hC7, \hCF, \hD7, \hDF, \hE7, \hEF, \hF7, \hFF} -> h_rst(s, opcode)
      [] opcode \in {\hC9, \hD9} -> h_ret(s, opcode)
      [] opcode \in {\hCD, \hDD, \hED, \hFD} -> h_call(s, opcode)
      [] opcode \in {\hCE} -> h_aci(s, opcode)
      [] opcode \in {\hD3} -> h_out(s, opcode)
      [] opcode \in {\hD6} -> h_sui(s, opcode)
      [] opcode \in {\hDB} -> h_in(s, opcode)
      [] opcode \in {\hDE} -> h_sbi(s, opcode)
      [] opcode \in {\hE3} -> h_xthl(s, opcode)
      [] opcode \in {\hE6} -> h_ani(s, opcode)
      [] opcode \in {\hE9} -> h_pchl(s, opcode)
      [] opcode \in {\hEB} -> h_xchg(s, opcode)
      [] opcode \in {\hEE} -> h_xri(s, opcode)
      [] opcode \in {\hF3, \hFB} -> h_di_ei(s, opcode)
      [] opcode \in {\hF6} -> h_ori(s, opcode)
      [] opcode \in {\hF9} -> h_sphl(s, opcode)
      [] opcode \in {\hFE} -> h_cpi(s, opcode)
      [] opcode \in {\h40, \h41, \h42, \h43, \h44, \h45, \h46, \h47, \h48, \h49, \h4A, \h4B,
                       \h4C, \h4D, \h4E, \h4F, \h50, \h51, \h52, \h53, \h54, \h55, \h56, \h57,
                       \h58, \h59, \h5A, \h5B, \h5C, \h5D, \h5E, \h5F, \h60, \h61, \h62, \h63,
                       \h64, \h65, \h66, \h67, \h68, \h69, \h6A, \h6B, \h6C, \h6D, \h6E, \h6F,
                       \h70, \h71, \h72, \h73, \h74, \h75, \h77, \h78, \h79, \h7A, \h7B, \h7C,
                       \h7D, \h7E, \h7F} -> h_mov(s, opcode)
      [] OTHER -> alert(s, opcode)

\* the tail of execute(): the countdown EI started, then return this.cpu_cycles
\* a countdown that enables interrupts as soon as one is pending
execute_pending_eager(s) ==
    IF s.iff_pending # 0
    THEN io_interrupt([s EXCEPT !.iff_pending = @ - 1, !.iff = TRUE], TRUE)
    ELSE s

execute_pending(s) ==
    IF s.iff_pending # 0
    THEN IF s.iff_pending - 1 = 0
         THEN io_interrupt([s EXCEPT !.iff_pending = @ - 1, !.iff = TRUE], TRUE)
         ELSE [s EXCEPT !.iff_pending = @ - 1]
    ELSE s

execute_return(s) == [s EXCEPT !.ret = s.cpu_cycles]

\* the fields as the handler left them, kept for observation
observe_mid(s) == [s EXCEPT !.mid = Fields(s)]

\* an execute() whose table has the documented opcodes only
execute_documented(s, opcode) ==
    LET t == [s EXCEPT !.last_opcode = opcode]
        u == IF opcode \in {\h08, \h10, \h18, \h20, \h28, \h30, \h38, \hCB, \hD9, \hDD,
                            \hED, \hFD}
             THEN alert(t, opcode) ELSE dispatch(t, opcode)
    IN execute_return(execute_pending(observe_mid(u)))

execute(s, opcode) ==
    execute_return(execute_pending(observe_mid(
        dispatch([s EXCEPT !.last_opcode = opcode], opcode))))

execute_fetched(s) == execute(s, s.ret)

instruction(s) == execute_fetched(next_pc_byte(s))

jump(s, addr) == [s EXCEPT !.pc = And(addr, \hFFFF)]

----------------------------------------------------------------------------
(* The state machine                                                       *)

\* The outcomes of one instruction() from the current fields with RAM m.  A byte of
\* the loaded image read for the first time is any opcode when it is the opcode
\* fetched at an address of Wide, and any byte of Data otherwise; a value read from
\* the I/O device is any byte of Data.
RECURSIVE Outcomes(_, _, _, _)
Resolve(r, m, inp, Wide, Data) ==
    IF r.miss = NoMiss THEN {r}
    ELSE IF r.miss = IoMiss
         THEN UNION {Outcomes(m, <<v>>, Wide, Data) : v \in Data}
         ELSE UNION {Outcomes([x \in (DOMAIN m) \cup {r.miss} |->
                                  IF x = r.miss THEN v ELSE m[x]], inp, Wide, Data) :
                     v \in IF r.miss = pc /\ pc \in Wide THEN 0 .. 255 ELSE Data}

Outcomes(m, inp, Wide, Data) ==
    Resolve(instruction(This(m, inp)), m, inp, Wide, Data)

Assign(r) ==
    /\ pc' = r.pc /\ sp' = r.sp /\ regs' = r.regs
    /\ sf' = r.sf /\ zf' = r.zf /\ hf' = r.hf /\ pf' = r.pf /\ cf' = r.cf
    /\ iff' = r.iff /\ iff_pending' = r.iff_pending
    /\ cpu_cycles' = r.cpu_cycles /\ vcycles' = r.vcycles
    /\ last_opcode' = r.last_opcode
    /\ mem' = r.mem

\* cpu.instruction()
Step(Wide, Data, bound) ==
    /\ steps < bound
    /\ \E r \in Outcomes(mem, <<>>, Wide, Data) :
          /\ Assign(r)
          /\ bus' = r.bus /\ result' = r.ret /\ pre' = r.pre /\ mid' = r.mid
    /\ steps' = steps + 1
    /\ UNCHANGED <<origin, harness>>

\* cpu.jump(addr), the host passing an address of Targets, possibly with bits above bit 15
JumpTo(Targets, bound) ==
    /\ steps < bound
    /\ \E addr \in Targets \cup {e + 65536 : e \in Targets} :
          Assign(jump(This(mem, <<>>), addr))
    /\ steps' = steps + 1
    /\ bus' = <<>>
    /\ UNCHANGED <<result, pre, mid, origin, harness>>

NoRam == [x \in {} |-> 0]

\* new I8080(memory, io)
Constructed ==
    /\ sp = 0 /\ pc = 0 /\ iff = FALSE /\ iff_pending = 0
    /\ sf = JSNum(0) /\ pf = JSNum(0) /\ hf = JSNum(0) /\ zf = JSNum(0) /\ cf = JSNum(0)
    /\ regs = [i \in 0 .. 7 |-> 0]
    /\ last_opcode = 0
    /\ cpu_cycles = Undefined /\ vcycles = Undefined

\* the host calls the object itself, without execute_test
NoHarness == [returned |-> "none"]

\* nothing observed yet: the run's first instruction() is still to come
Observed ==
    /\ bus = <<>> /\ result = cpu_cycles /\ steps = 0
    /\ pre = Here(mem) /\ mid = Here(mem) /\ origin = Here(mem)
    /\ harness = NoHarness

----------------------------------------------------------------------------
(* Spec: one host call from the states a program leaves behind             *)

\* bound: host calls (instruction() or jump()) in one run
MaxCalls == 1

\* bytes of the loaded image away from the entry points, and values the I/O device returns
Fill == {\h00, \hFF}
\* addresses the host starts execution at; an instruction fetched there is any opcode
Entry == {\h0100, \hFFFF}

\* register files a program leaves behind (MVI, LXI do not touch the flags)
RegFileOf(t) == [i \in 0 .. 7 |-> t[i + 1]]
RegFiles ==
    { RegFileOf(<<0, 0, 0, 0, 0, 0, 0, 0>>),
      RegFileOf(<<\h12, \h34, \h56, \h78, \hFF, \hFF, 0, \hFF>>),
      RegFileOf(<<\hFF, \hFF, \h00, \h01, \h01, \h00, 0, \h0A>>) }

\* flags a program leaves behind: sf, zf, hf, pf, cf after reset, after POP PSW of
\* 0xFF and of 0x45, after SUB (0 - 1) and after INR (0xFF + 1) then CMC
FlagFiles ==
    { <<JSNum(0), JSNum(0), JSNum(0), JSNum(0), JSNum(0)>>,
      <<JSNum(1), JSNum(1), JSNum(1), JSNum(1), JSNum(1)>>,
      <<JSNum(0), JSNum(1), JSNum(0), JSNum(1), JSNum(1)>>,
      <<JSBool(TRUE), JSBool(FALSE), JSBool(FALSE), JSNum(1), JSBool(TRUE)>>,
      <<JSBool(FALSE), JSBool(TRUE), JSBool(TRUE), JSNum(1), JSBool(TRUE)>> }

\* The object after the host ran a program that set the registers, SP and the
\* flags and ended in EI; NOP, in EI, in NOP or in EI; NOP; EI, and then jumped to
\* an entry address.  iff_pending is 1 exactly when the last instruction was EI.
Booted ==
    /\ pc \in Entry
    /\ sp \in {\h0001, \hF000}
    /\ regs \in RegFiles
    /\ \E f \in FlagFiles :
          sf = f[1] /\ zf = f[2] /\ hf = f[3] /\ pf = f[4] /\ cf = f[5]
    /\ iff \in BOOLEAN /\ iff_pending \in {0, 1}
    /\ last_opcode = IF iff_pending = 1 THEN \hFB ELSE \h00
    /\ cpu_cycles = 4 /\ vcycles = T4

Init ==
    /\ mem = NoRam
    /\ Constructed \/ Booted
    /\ Observed

Instruction == Step(Entry, Fill, MaxCalls)

Jump == JumpTo(Entry, MaxCalls)

Next == Instruction \/ Jump

Spec == Init /\ [][Next]_vars

----------------------------------------------------------------------------
(* SpecFresh: the first calls on a freshly constructed object              *)

\* bound: host calls in one run
FreshCalls == 2

\* the first two instructions are any opcodes; later ones and the data are these bytes
FreshWide == {\h0000, \h0001}
FreshFill == {\h00, \hFB}

InitFresh ==
    /\ mem = NoRam
    /\ Constructed
    /\ Observed

InstructionFresh == Step(FreshWide, FreshFill, FreshCalls)

JumpFresh == JumpTo({\h0001}, FreshCalls)

NextFresh == InstructionFresh \/ JumpFresh

SpecFresh == InitFresh /\ [][NextFresh]_vars

----------------------------------------------------------------------------
(* SpecInt: EI, DI or NOP, then any instruction                            *)

\* bound: instructions in one run
IntCalls == 2

\* EI, DI or NOP at 0x0100, any opcode at 0x0101; these bytes elsewhere
IntWide == {\h0101}
IntFill == {\h00, \hF3, \hFB}

InitInt ==
    /\ mem = NoRam
    /\ Booted
    /\ pc = \h0100 /\ sp = \hF000
    /\ regs = RegFileOf(<<\h12, \h34, \h56, \h78, \hFF, \hFF, 0, \hFF>>)
    /\ ToNumber(sf) = 0
    /\ Observed

NextInt == Step(IntWide, IntFill, IntCalls)

SpecInt == InitInt /\ [][NextInt]_vars

----------------------------------------------------------------------------
(* One arithmetic instruction loaded at 0x0100 with its operand in place   *)

\* bound: instructions in one run
AluCalls == 1

Program == \h0100
Data == \h2000

\* opcode groups by bit pattern
InrDcrOps == {op \in 0 .. 63 : op % 8 \in {4, 5}}
AddOps == (\h80 .. \h8F) \cup {\hC6, \hCE}
SubOps == (\h90 .. \h9F) \cup {\hD6, \hDE}
CmpOps == (\hB8 .. \hBF) \cup {\hFE}
LogicOps == (\hA0 .. \hB7) \cup {\hE6, \hEE, \hF6}
DAA == \h27
PfOps == InrDcrOps \cup AddOps \cup SubOps \cup CmpOps \cup LogicOps \cup {DAA}

\* where an instruction takes its operand: the byte after the opcode, or the
\* register of this number (6 is M, the byte at HL)
Immediate(op) == op >= 192
OperandReg(op) == IF op < 64 THEN (op \div 8) % 8 ELSE op % 8

\* the object after a program put av in A, v in the operand of op, HL at Data and
\* the flags at h, c, and jumped to Program, where op is loaded
Loaded(op, av, v, h, c) ==
    LET at == OperandReg(op)
        file == RegFileOf(<<0, 0, 0, 0, Data \div 256, Data % 256, 0, av>>)
    IN
    /\ pc = Program /\ sp = \hF000
    /\ regs = IF ~Immediate(op) /\ at # 6 THEN [file EXCEPT ![at] = v] ELSE file
    /\ mem = IF Immediate(op) THEN (Program :> op) @@ (Program + 1 :> v)
             ELSE IF at = 6 THEN (Program :> op) @@ (Data :> v)
             ELSE (Program :> op)
    /\ sf = JSNum(0) /\ zf = JSNum(0) /\ pf = JSNum(0) /\ hf = h /\ cf = c
    /\ iff = FALSE /\ iff_pending = 0 /\ last_opcode = \h00
    /\ cpu_cycles = 4 /\ vcycles = T4
    /\ Observed

\* operand values at the nibble and byte edges
Edges == {\h00, \h01, \h0F, \h10, \h7F, \h80, \hF0, \hFF}
\* a flag as the constructor, STC and POP PSW leave it, and as the ALU leaves it
JSFlags == {JSNum(0), JSNum(1), JSBool(FALSE), JSBool(TRUE)}
Bits == {JSNum(0), JSNum(1)}

Execute == Step({}, {\h00}, AluCalls)

\* SpecAdd: ADC B over every A, B and carry; the other additions at the edges
InitAdd ==
    \/ \E av \in 0 .. 255, v \in 0 .. 255, c \in Bits : Loaded(\h88, av, v, JSNum(0), c)
    \/ \E op \in AddOps, av \in Edges, v \in Edges, c \in JSFlags :
          Loaded(op, av, v, JSNum(0), c)

SpecAdd == InitAdd /\ [][Execute]_vars

\* SpecSub: SBB B and CMP B over every A and B; the other subtractions at the edges
InitSub ==
    \/ \E av \in 0 .. 255, v \in 0 .. 255, c \in Bits : Loaded(\h98, av, v, JSNum(0), c)
    \/ \E av \in 0 .. 255, v \in 0 .. 255 : Loaded(\hB8, av, v, JSNum(0), JSNum(1))
    \/ \E op \in SubOps \cup CmpOps, av \in Edges, v \in Edges, c \in JSFlags :
          Loaded(op, av, v, JSNum(0), c)

SpecSub == InitSub /\ [][Execute]_vars

\* SpecPf: every instruction that sets PF, over every operand value
InitPf ==
    \E op \in PfOps, av \in {\h00, \h35, \hFF}, v \in 0 .. 255, c \in Bits :
        Loaded(op, av, v, JSNum(0), c)

SpecPf == InitPf /\ [][Execute]_vars

\* SpecDaa: DAA over every A and every HF and CF
InitDaa ==
    \E av \in 0 .. 255, h \in JSFlags, c \in JSFlags : Loaded(DAA, av, 0, h, c)

SpecDaa == InitDaa /\ [][Execute]_vars

----------------------------------------------------------------------------
(* Short programs loaded at 0x0100                                         *)

\* the bytes of prog at Program, Program + 1, ...
Image(prog) == [x \in Program .. Program + Len(prog) - 1 |-> prog[x - Program + 1]]

\* the object after the host loaded prog, a program set the registers to file, SP
\* to top and the flags sf, zf, hf, pf, cf to f, and jumped to Program; ram is what
\* the memory holds besides the program
Ready(prog, ram, file, top, f) ==
    /\ pc = Program /\ sp = top /\ regs = file
    /\ mem = Image(prog) @@ ram
    /\ sf = f[1] /\ zf = f[2] /\ hf = f[3] /\ pf = f[4] /\ cf = f[5]
    /\ iff = FALSE /\ iff_pending = 0 /\ last_opcode = \h00
    /\ cpu_cycles = 4 /\ vcycles = T4
    /\ Observed

\* every combination of the five flags held as numbers
BitFiles == {<<JSNum(b7), JSNum(b6), JSNum(b4), JSNum(b2), JSNum(b0)>> :
                b7 \in 0 .. 1, b6 \in 0 .. 1, b4 \in 0 .. 1, b2 \in 0 .. 1, b0 \in 0 .. 1}

\* stack pointers: where SP - 2 wraps below 0, on top of the program, in free RAM
StackTops == {\h0000, \h0001, \h0002, \h0102, \hF000, \hFFFF}

\* SpecPsw: PUSH PSW; POP PSW, and POP PSW of any byte
PswCalls == 2
PUSH_PSW == \hF5
POP_PSW == \hF1

InitPsw ==
    \/ \E av \in 0 .. 255, f \in BitFiles :
          Ready(<<PUSH_PSW, POP_PSW>>, NoRam,
                RegFileOf(<<1, 2, 3, 4, 5, 6, 0, av>>), \hF000, f)
    \/ \E av \in {\h00, \hF1, \hFF}, f \in BitFiles \cup FlagFiles, top \in StackTops :
          Ready(<<PUSH_PSW, POP_PSW>>, NoRam,
                RegFileOf(<<1, 2, 3, 4, 5, 6, 0, av>>), top, f)
    \/ \E b \in 0 .. 255, top \in {\hF000, \hFFFF} :
          Ready(<<POP_PSW>>, (top :> b) @@ ((top + 1) % 65536 :> \hA5),
                RegFileOf(<<1, 2, 3, 4, 5, 6, 0, 0>>), top, <<JSNum(0), JSNum(1), JSNum(0), JSNum(1), JSNum(0)>>)

ExecutePsw == Step({}, {\h00}, PswCalls)

SpecPsw == InitPsw /\ [][ExecutePsw]_vars

\* SpecStack: k PUSHes of BC, DE or HL, then k POPs
StackCalls == 8
PushOps == {\hC5, \hD5, \hE5}
PopOps == {\hC1, \hD1, \hE1}

\* register files: plain values, and one whose B and C are the opcodes POP B, PUSH B
StackFiles ==
    { RegFileOf(<<\h12, \h34, \h56, \h78, \h9A, \hBC, 0, \hFF>>),
      RegFileOf(<<\hC1, \hC5, \h00, \hFF, \hFF, \h00, 0, \h01>>) }

\* one or two PUSHes and as many POPs, any pairs; three or four PUSHes of BC, DE, HL,
\* BC and as many POPs of any pairs
StackPrograms ==
    {<<p, q>> : p \in PushOps, q \in PopOps}
    \cup {<<p1, p2, q1, q2>> : p1 \in PushOps, p2 \in PushOps, q1 \in PopOps, q2 \in PopOps}
    \cup {<<\hC5, \hD5, \hE5, q1, q2, q3>> : q1 \in PopOps, q2 \in PopOps, q3 \in PopOps}
    \cup {<<\hC5, \hD5, \hE5, \hC5, q1, q2, q3, q4>> :
             q1 \in PopOps, q2 \in PopOps, q3 \in PopOps, q4 \in PopOps}

InitStack ==
    \/ \E prog \in StackPrograms, file \in StackFiles, top \in StackTops :
          Ready(prog, NoRam, file, top, <<JSNum(0), JSNum(0), JSNum(0), JSNum(0), JSNum(0)>>)
    \/ \E top \in 0 .. 65535 :
          Ready(<<\hE5, \hE1>>, NoRam, RegFileOf(<<\h12, \h34, \h56, \h78, \h9A, \hBC, 0, \hFF>>),
                top, <<JSNum(0), JSNum(0), JSNum(0), JSNum(0), JSNum(0)>>)

ExecuteStack == Step({}, {\h00}, StackCalls)

SpecStack == InitStack /\ [][ExecuteStack]_vars

\* SpecCarry: STC; CMC, a single CMC, and RLC; RRC
CarryCalls == 2
STC == \h37
CMC == \h3F
RLC == \h07
RRC == \h0F

InitCarry ==
    \/ \E prog \in {<<STC, CMC>>, <<CMC, CMC>>}, file \in StackFiles,
          f \in BitFiles \cup FlagFiles :
          Ready(prog, NoRam, file, \hF000, f)
    \/ \E av \in 0 .. 255, c \in JSFlags :
          Ready(<<RLC, RRC>>, NoRam, RegFileOf(<<1, 2, 3, 4, 5, 6, 0, av>>), \hF000,
                <<JSNum(0), JSNum(1), JSNum(0), JSNum(1), c>>)

ExecuteCarry == Step({}, {\h00}, CarryCalls)

SpecCarry == InitCarry /\ [][ExecuteCarry]_vars

\* SpecInx: INX rp; DCX rp
InxCalls == 2
InxOps == {\h03, \h13, \h23, \h33}
DcxOps == {\h0B, \h1B, \h2B, \h3B}

\* 16-bit values at the byte and word edges
WordEdges == {\h0000, \h0001, \h00FF, \h0100, \h7FFF, \h8000, \hFFFE, \hFFFF}

\* the register file and SP with the pair number q (6 is SP) holding w; entry 6 of
\* the file is never written and stays 0
FileWith(q, w) ==
    [i \in 0 .. 7 |-> IF q # 6 /\ i = q THEN w \div 256
                      ELSE IF q # 6 /\ i = q + 1 THEN w % 256
                      ELSE IF i = 6 THEN 0
                      ELSE \h11 * (i + 1)]
TopWith(q, w) == IF q = 6 THEN w ELSE \hF000

InitInx ==
    \/ \E q \in {2, 6}, w \in 0 .. 65535 :
          Ready(<<\h03 + 8 * q, \h0B + 8 * q>>, NoRam, FileWith(q, w), TopWith(q, w),
                <<JSBool(TRUE), JSBool(FALSE), JSBool(FALSE), JSNum(1), JSBool(TRUE)>>)
    \/ \E q \in {0, 2, 4, 6}, w \in WordEdges, f \in FlagFiles :
          Ready(<<\h03 + 8 * q, \h0B + 8 * q>>, NoRam, FileWith(q, w), TopWith(q, w), f)

ExecuteInx == Step({}, {\h00}, InxCalls)

SpecInx == InitInx /\ [][ExecuteInx]_vars

\* SpecCall: CALL a16 or RST n, with a RET at the target
CallCalls == 2
CallOps == {\hCD, \hDD, \hED, \hFD}
RstOps == {op \in 192 .. 255 : op % 8 = 7}
RetOps == {\hC9, \hD9}

\* the bytes of prog at base, base + 1, ..., wrapping at the top of memory
ImageAt(base, prog) ==
    [x \in {(base + i) % 65536 : i \in 0 .. Len(prog) - 1} |->
        prog[((x + 65536 - base) % 65536) + 1]]

\* the instruction op with operand a16 loaded at p and the byte at loaded at its target
Linked(p, op, a16, at, top) ==
    /\ pc = p /\ sp = top
    /\ regs = RegFileOf(<<\h12, \h34, \h56, \h78, \h9A, \hBC, 0, \hFF>>)
    /\ mem = IF op \in CallOps
             THEN ImageAt(p, <<op, a16 % 256, a16 \div 256>>) @@ (a16 :> at)
             ELSE ImageAt(p, <<op>>) @@ (8 * ((op \div 8) % 8) :> at)
    /\ sf = JSNum(0) /\ zf = JSNum(1) /\ hf = JSNum(0) /\ pf = JSNum(1) /\ cf = JSNum(0)
    /\ iff = FALSE /\ iff_pending = 0 /\ last_opcode = \h00
    /\ cpu_cycles = 4 /\ vcycles = T4
    /\ Observed

InitCall ==
    \E p \in {\h0100, \hFFFD, \hFFFE, \hFFFF}, op \in CallOps \cup RstOps,
       a16 \in {\h0000, \h0038, \h0102, \h2000, \hFFFF}, at \in RetOps \cup {\h00},
       top \in StackTops \cup {\h003A, \h2001} :
        Linked(p, op, a16, at, top)

ExecuteCall == Step({}, {\h00}, CallCalls)

SpecCall == InitCall /\ [][ExecuteCall]_vars

EI == \hFB
HLT == \h76

\* SpecHalt: HLT at pc, with or without an EI just executed
HaltCalls == 3

InitHalt ==
    \E p \in {\h0000, \h0100, \hFFFF}, file \in StackFiles, f \in FlagFiles,
       enabled \in BOOLEAN, pending \in {0, 1} :
        /\ pc = p /\ sp = \hF000 /\ regs = file
        /\ mem = (p :> HLT)
        /\ sf = f[1] /\ zf = f[2] /\ hf = f[3] /\ pf = f[4] /\ cf = f[5]
        /\ iff = enabled /\ iff_pending = pending
        /\ last_opcode = IF pending = 1 THEN EI ELSE \h00
        /\ cpu_cycles = 4 /\ vcycles = T4
        /\ Observed

ExecuteHalt == Step({}, {\h00}, HaltCalls)

SpecHalt == InitHalt /\ [][ExecuteHalt]_vars

----------------------------------------------------------------------------
(* Properties                                                              *)

DI == \hF3

\* the last call of the host was an instruction(): its opcode fetch is on the bus log
Ran == bus # <<>>

\* the calls io.interrupt(b) made by the last instruction()
Interrupts(b) == {i \in 1 .. Len(bus) : bus[i][1] = "interrupt" /\ bus[i][2] = b}

\* C1 as stated: an EI step does not change iff, and after the step that follows an
\* EI, whatever its opcode, iff is true and interrupt(true) was called in that step.
C1_EiDelayAnyOpcode ==
    /\ (Ran /\ last_opcode = EI) => iff = pre.iff
    /\ (Ran /\ pre.last_opcode = EI) => (iff = TRUE /\ Interrupts(TRUE) # {})

\* C1 amended: an EI step does not change iff and leaves iff_pending at 1; after the
\* step that follows an EI, for every opcode other than EI, iff is true and
\* interrupt(true) was called in that step.
C1_EiDelay ==
    /\ (Ran /\ last_opcode = EI) => (iff = pre.iff /\ iff_pending = 1)
    /\ (Ran /\ pre.last_opcode = EI /\ last_opcode # EI)
          => (iff = TRUE /\ Interrupts(TRUE) # {})

C1_Witness ==
    /\ steps = 2 /\ pre.last_opcode = EI /\ last_opcode = \h3C
    /\ ~pre.iff /\ iff /\ Interrupts(TRUE) # {}

\* C2: after a DI step iff is false, iff_pending is 0 and interrupt(false) was
\* called in the step, also when an earlier EI left iff_pending at 1.
C2_DiDisables ==
    (Ran /\ last_opcode = DI)
        => (iff = FALSE /\ iff_pending = 0 /\ Interrupts(FALSE) # {})

\* the 8080 T-state table; f holds the flags before the instruction
Taken(op, f) ==
    LET sel == (op \div 16) % 4
        flag == IF sel = 0 THEN f.zf ELSE IF sel = 1 THEN f.cf
                ELSE IF sel = 2 THEN f.pf ELSE f.sf
    IN ToNumber(flag) = (op \div 8) % 2

DocumentedTStates(op, f) ==
    LET lo == op % 8
        mid3 == (op \div 8) % 8
    IN
    IF op < 64 THEN
        CASE lo = 0 -> 4
          [] lo = 1 -> IF mid3 % 2 = 0 THEN 10 ELSE 10
          [] lo = 2 -> IF mid3 < 4 THEN 7 ELSE IF mid3 < 6 THEN 16 ELSE 13
          [] lo = 3 -> 5
          [] lo = 4 -> IF mid3 = 6 THEN 10 ELSE 5
          [] lo = 5 -> IF mid3 = 6 THEN 10 ELSE 5
          [] lo = 6 -> IF mid3 = 6 THEN 10 ELSE 7
          [] lo = 7 -> 4
    ELSE IF op < 128 THEN
        IF op = HLT THEN 7 ELSE IF lo = 6 \/ mid3 = 6 THEN 7 ELSE 5
    ELSE IF op < 192 THEN
        IF lo = 6 THEN 7 ELSE 4
    ELSE
        CASE lo = 0 -> IF Taken(op, f) THEN 11 ELSE 5
          [] lo = 1 -> IF mid3 % 2 = 0 THEN 10
                       ELSE IF mid3 < 4 THEN 10 ELSE 5
          [] lo = 2 -> 10
          [] lo = 3 -> IF mid3 < 2 THEN 10 ELSE IF mid3 < 4 THEN 10
                       ELSE IF mid3 = 4 THEN 18 ELSE 4
          [] lo = 4 -> IF Taken(op, f) THEN 17 ELSE 11
          [] lo = 5 -> IF mid3 % 2 = 0 THEN 11 ELSE 17
          [] lo = 6 -> 7
          [] lo = 7 -> 11

\* C3: instruction() returns cpu_cycles, and that is the documented T-state count of
\* the opcode executed (HLT 7; Rcc 5/11 and Ccc 11/17 by the condition).
C3_DocumentedCycles ==
    Ran =>
        /\ result = cpu_cycles
        /\ cpu_cycles = DocumentedTStates(last_opcode, pre)

\* C4: every register is in 0..255, pc and sp are in 0..65535 and each flag is
\* strictly the number 0 or the number 1.
C4_Ranges ==
    /\ \A i \in 0 .. 7 : regs[i] \in 0 .. 255
    /\ pc \in 0 .. 65535 /\ sp \in 0 .. 65535
    /\ \A f \in {sf, zf, hf, pf, cf} : f \in {JSNum(0), JSNum(1)}

\* C5: iff_pending is 0, 1 or 2; it is 2 only inside an EI step, between the handler
\* and the countdown of execute(), and 0 or 1 whenever instruction() has returned.
C5_PendingRange ==
    /\ iff_pending \in {0, 1}
    /\ mid.iff_pending \in {0, 1, 2}
    /\ Ran => (mid.iff_pending = 2 <=> last_opcode = EI)

C5_Witness ==
    /\ steps = 2 /\ pre.last_opcode = EI /\ last_opcode = EI
    /\ pre.iff_pending = 1 /\ mid.iff_pending = 2 /\ iff_pending = 1

\* the operand value v of the last instruction, read from the state at its entry
OperandOf(op, f) ==
    IF Immediate(op) THEN f.mem[(f.pc + 1) % 65536]
    ELSE IF OperandReg(op) = 6 THEN f.mem[f.regs[4] * 256 + f.regs[5]]
    ELSE f.regs[OperandReg(op)]

Bit(b) == IF b THEN 1 ELSE 0
OnesIn(x) ==
    (x % 2) + ((x \div 2) % 2) + ((x \div 4) % 2) + ((x \div 8) % 2)
    + ((x \div 16) % 2) + ((x \div 32) % 2) + ((x \div 64) % 2) + ((x \div 128) % 2)
EvenParity(x) == Bit(OnesIn(x) % 2 = 0)

\* SF, ZF and PF are those of the 8-bit value x
FlagsOf(x) ==
    /\ ToNumber(sf) = x \div 128
    /\ ToNumber(zf) = Bit(x = 0)
    /\ ToNumber(pf) = EvenParity(x)

\* C6: ADD, ADC, ADI, ACI with accumulator A, operand v and carry-in c (CF for
\* ADC/ACI, else 0) give A' = (A + v + c) mod 256, CF = 1 iff A + v + c > 255,
\* HF = 1 iff (A mod 16) + (v mod 16) + c > 15, and SF, ZF, PF those of A'.
C6_AddReference ==
    (Ran /\ last_opcode \in AddOps) =>
        LET A == pre.regs[7]
            v == OperandOf(last_opcode, pre)
            c == IF (last_opcode \div 8) % 2 = 1 THEN ToNumber(pre.cf) ELSE 0
        IN /\ regs[7] = (A + v + c) % 256
           /\ ToNumber(cf) = Bit(A + v + c > 255)
           /\ ToNumber(hf) = Bit((A % 16) + (v % 16) + c > 15)
           /\ FlagsOf((A + v + c) % 256)

C6_Witness ==
    /\ Ran /\ last_opcode = \h88
    /\ pre.regs[7] = \hFF /\ pre.regs[0] = \h00 /\ ToNumber(pre.cf) = 1
    /\ regs[7] = \h00 /\ ToNumber(cf) = 1 /\ ToNumber(zf) = 1 /\ ToNumber(hf) = 1

\* C7: SUB, SBB, SUI, SBI, CMP, CPI with accumulator A, operand v and borrow-in c (CF
\* for SBB/SBI, else 0) compute result = (A - v - c) mod 256 with CF = 1 iff
\* A < v + c, HF = 1 iff (A mod 16) >= (v mod 16) + c, and SF, ZF, PF those of the
\* result; SUB, SBB, SUI, SBI store the result in A.
C7_SubReference ==
    (Ran /\ last_opcode \in SubOps \cup CmpOps) =>
        LET A == pre.regs[7]
            v == OperandOf(last_opcode, pre)
            c == IF last_opcode \in (\h98 .. \h9F) \cup {\hDE}
                 THEN ToNumber(pre.cf) ELSE 0
        IN /\ last_opcode \in SubOps => regs[7] = (A - v - c) % 256
           /\ ToNumber(cf) = Bit(A < v + c)
           /\ ToNumber(hf) = Bit((A % 16) >= (v % 16) + c)
           /\ FlagsOf((A - v - c) % 256)

C7_Witness ==
    /\ Ran /\ last_opcode = \h98
    /\ pre.regs[7] = \h10 /\ pre.regs[0] = \h0F /\ ToNumber(pre.cf) = 1
    /\ regs[7] = \h00 /\ ToNumber(cf) = 0 /\ ToNumber(hf) = 0 /\ ToNumber(zf) = 1

\* the object for a state f the fields were in
Object(f) ==
    f @@ [bus |-> <<>>, inp |-> <<>>, ret |-> 0, miss |-> NoMiss, pre |-> f, mid |-> f]

\* SUB r for CMP r, SUI for CPI
SubFor(op) == IF op = \hFE THEN \hD6 ELSE op - \h28

\* the state SUB/SUI with the same operand leaves when run from the state f
AfterSub(f) ==
    instruction(Object([f EXCEPT !.mem = [@ EXCEPT ![f.pc] = SubFor(f.mem[f.pc])]]))

\* C8: CMP/CPI leaves A as it was and leaves SF, ZF, HF, PF, CF exactly as SUB/SUI
\* with the same operand leaves them from the same state.
C8_CmpIsSub ==
    (Ran /\ last_opcode \in CmpOps) =>
        /\ regs[7] = pre.regs[7]
        /\ <<sf, zf, hf, pf, cf>> =
              <<AfterSub(pre).sf, AfterSub(pre).zf, AfterSub(pre).hf,
                AfterSub(pre).pf, AfterSub(pre).cf>>

C8_Witness ==
    /\ Ran /\ last_opcode = \hFE
    /\ pre.regs[7] = \h0F /\ OperandOf(\hFE, pre) = \h10 /\ ToNumber(pre.cf) = 1
    /\ regs[7] = \h0F /\ ToNumber(cf) = 1 /\ AfterSub(pre).regs[7] = \hFF

\* C9 as stated: after every instruction that sets PF, PF is the even parity of the
\* accumulator after the instruction.
C9_ParityOfAccumulator ==
    (Ran /\ last_opcode \in PfOps) => ToNumber(pf) = EvenParity(regs[7])

\* the 8-bit result of the last instruction: the register or memory byte INR/DCR
\* wrote, the difference CMP/CPI discarded, the accumulator otherwise
ResultOf(op) ==
    IF op \in InrDcrOps
    THEN IF OperandReg(op) = 6 THEN mem[pre.regs[4] * 256 + pre.regs[5]]
         ELSE regs[OperandReg(op)]
    ELSE IF op \in CmpOps THEN (pre.regs[7] - OperandOf(op, pre)) % 256
    ELSE regs[7]

\* C9 amended: after every instruction that sets PF, PF is the even parity of the
\* instruction's 8-bit result: the new accumulator for ADD..ORA, their immediate
\* forms and DAA, the incremented or decremented register or memory byte for
\* INR/DCR, the discarded difference A - v for CMP/CPI.
C9_ParityOfResult ==
    (Ran /\ last_opcode \in PfOps) => ToNumber(pf) = EvenParity(ResultOf(last_opcode))

C9_Witness ==
    /\ Ran /\ last_opcode = \h04
    /\ regs[0] = \h01 /\ regs[7] = \h00
    /\ ToNumber(pf) = 0

\* C10: DAA adds 0x06 if HF is set or the low nibble of A exceeds 9, and 0x60 if CF
\* is set or the high nibble exceeds 9 or (high nibble >= 9 and low nibble > 9);
\* A' = (A + add) mod 256, SF/ZF/HF/PF are those of that addition and CF' = 1 iff
\* CF was 1 or the 0x60 correction was applied.
C10_DaaReference ==
    (Ran /\ last_opcode = DAA) =>
        LET A == pre.regs[7]
            low == ToNumber(pre.hf) = 1 \/ A % 16 > 9
            high == ToNumber(pre.cf) = 1 \/ A \div 16 > 9
                       \/ (A \div 16 >= 9 /\ A % 16 > 9)
            adjust == (IF low THEN 6 ELSE 0) + (IF high THEN 96 ELSE 0)
        IN /\ regs[7] = (A + adjust) % 256
           /\ ToNumber(hf) = Bit((A % 16) + (adjust % 16) > 15)
           /\ FlagsOf((A + adjust) % 256)
           /\ ToNumber(cf) = Bit(ToNumber(pre.cf) = 1 \/ high)

C10_Witness ==
    /\ Ran /\ last_opcode = DAA
    /\ pre.regs[7] = \h9B /\ ToNumber(pre.hf) = 0 /\ ToNumber(pre.cf) = 0
    /\ regs[7] = \h01 /\ ToNumber(cf) = 1 /\ ToNumber(hf) = 1

\* the case of C11: DAA has run from A = 0x3A with CF set
DaaFrom3A == Ran /\ last_opcode = DAA /\ pre.regs[7] = \h3A /\ ToNumber(pre.cf) = 1

\* C11 as stated: from A = 0x3A and CF = 1, for either HF, DAA yields A = 0x40 and
\* CF = 1.
C11_DaaYields40 == DaaFrom3A => (regs[7] = \h40 /\ ToNumber(cf) = 1)

\* C11 amended: from A = 0x3A and CF = 1, for either HF, DAA yields A = 0xA0 (both
\* corrections apply, 0x3A + 0x66) and CF = 1.
C11_DaaYieldsA0 == DaaFrom3A => (regs[7] = \hA0 /\ ToNumber(cf) = 1)

C11_Witness == DaaFrom3A /\ ToNumber(pre.hf) = 0 /\ regs[7] = \hA0 /\ ToNumber(cf) = 1

\* the five flags of the fields f as bits
FlagBits(f) ==
    <<ToNumber(f.sf), ToNumber(f.zf), ToNumber(f.hf), ToNumber(f.pf), ToNumber(f.cf)>>
NowBits == <<ToNumber(sf), ToNumber(zf), ToNumber(hf), ToNumber(pf), ToNumber(cf)>>

\* the run was the two instructions first; second, and both have returned
Ran2(first, second) == steps = 2 /\ pre.last_opcode = first /\ last_opcode = second

\* C12: PUSH PSW then POP PSW leaves A, the five flags and SP as before the PUSH;
\* the flag byte PUSH PSW writes at the new SP has bit 1 = 1, bits 3 and 5 = 0 and
\* bits 7, 6, 4, 2, 0 = SF, ZF, HF, PF, CF, with A above it; POP PSW of a byte b
\* takes the flags from bits 7, 6, 4, 2, 0 of b alone.
C12_PswRoundTrip ==
    /\ Ran2(PUSH_PSW, POP_PSW) =>
          /\ regs[7] = origin.regs[7] /\ sp = origin.sp
          /\ NowBits = FlagBits(origin)
    /\ (Ran /\ last_opcode = PUSH_PSW) =>
          LET b == FlagBits(pre)
          IN /\ sp = (pre.sp - 2) % 65536
             /\ mem[sp] = 128 * b[1] + 64 * b[2] + 16 * b[3] + 4 * b[4] + b[5] + 2
             /\ mem[(sp + 1) % 65536] = pre.regs[7]
             /\ bus[2] = <<"write", sp, mem[sp], "true">>
    /\ (Ran /\ last_opcode = POP_PSW) =>
          LET b == pre.mem[pre.sp]
          IN /\ NowBits = <<(b \div 128) % 2, (b \div 64) % 2, (b \div 16) % 2,
                            (b \div 4) % 2, b % 2>>
             /\ regs[7] = pre.mem[(pre.sp + 1) % 65536]
             /\ sp = (pre.sp + 2) % 65536

C12_Witness ==
    /\ Ran2(PUSH_PSW, POP_PSW)
    /\ origin.sp = \h0001 /\ origin.regs[7] = \hFF
    /\ origin.sf = JSBool(TRUE) /\ origin.cf = JSBool(TRUE)
    /\ regs[7] = \hFF /\ sp = \h0001 /\ sf = JSNum(1) /\ cf = JSNum(1)
    /\ mem[\hFFFF] \in {\h83, \h87}

\* the byte the memory image ram holds at x, if an instruction has touched it
Known(ram, x) == IF x \in DOMAIN ram THEN ram[x] ELSE Undefined

\* the program the run started with, as loaded, and the number of its PUSHes
Loaded0 == [i \in 1 .. Cardinality(DOMAIN origin.mem) |-> origin.mem[Program + i - 1]]
Pushes0 == Len(Loaded0) \div 2

\* the instructions executed so far are the first steps ones of that program: its
\* bytes are as loaded and pc is behind them
OnProgram ==
    /\ pc = Program + steps /\ steps <= Len(Loaded0)
    /\ \A x \in DOMAIN origin.mem : mem[x] = origin.mem[x]

\* the register number of the pair a PUSH or POP opcode names
PairOf(op) == 2 * ((op \div 16) % 4)

\* the pair PUSHed by the PUSH that POP number j takes its value from
SourceOf(j) == PairOf(Loaded0[Pushes0 + 1 - j])

\* among the first n POPs, the last one into pair q (0 if none)
LastPopInto(q, n) ==
    LET js == {j \in 1 .. n : PairOf(Loaded0[Pushes0 + j]) = q}
    IN IF js = {} THEN 0 ELSE CHOOSE j \in js : \A i \in js : i <= j

\* C13: PUSH rp stores the low byte at the new SP and the high byte above it; after k
\* PUSHes and the first n of k POPs, every pair holds the value of the PUSH its last
\* POP matches in reverse order (or its old value) and SP is 2 * (k - n) below where
\* it was, so after all k POPs SP is restored and PUSH rp; POP rp leaves rp unchanged.
C13_StackLifo ==
    /\ (Ran /\ last_opcode \in PushOps) =>
          /\ sp = (pre.sp - 2) % 65536
          /\ Known(mem, sp) = pre.regs[PairOf(last_opcode) + 1]
          /\ Known(mem, (sp + 1) % 65536) = pre.regs[PairOf(last_opcode)]
    /\ (OnProgram /\ steps > Pushes0) =>
          LET n == steps - Pushes0
          IN /\ sp = (origin.sp - 2 * (Pushes0 - n)) % 65536
             /\ \A q \in {0, 2, 4} :
                   LET j == LastPopInto(q, n)
                       from == IF j = 0 THEN q ELSE SourceOf(j)
                   IN regs[q] = origin.regs[from] /\ regs[q + 1] = origin.regs[from + 1]

C13_Witness ==
    /\ OnProgram /\ steps = 8
    /\ Loaded0 = <<\hC5, \hD5, \hE5, \hC5, \hC1, \hD1, \hE1, \hC1>>
    /\ origin.sp = \h0001 /\ sp = \h0001
    /\ regs[2] = \h9A /\ regs[3] = \hBC /\ regs[4] = \h56 /\ regs[5] = \h78
    /\ regs[0] = \h12 /\ regs[1] = \h34
    /\ mem[\hFFFF] = \h34 /\ mem[\h0000] = \h12

\* a single CMC toggles CF and changes no other flag, no register, not SP, no memory
CmcToggles ==
    (Ran /\ last_opcode = CMC) =>
        /\ ToNumber(cf) = 1 - ToNumber(pre.cf)
        /\ <<sf, zf, hf, pf>> = <<pre.sf, pre.zf, pre.hf, pre.pf>>
        /\ regs = pre.regs /\ sp = pre.sp /\ mem = pre.mem

\* C14 as stated: STC then CMC leaves CF equal to its value before the STC, and a
\* single CMC toggles CF without changing any other flag or register.
C14_StcCmcRestores ==
    /\ Ran2(STC, CMC) => ToNumber(cf) = ToNumber(origin.cf)
    /\ CmcToggles

\* C14 amended: STC then CMC leaves CF = 0 whatever it was before the STC (STC sets
\* it, CMC complements it), and a single CMC toggles CF without changing any other
\* flag or register.
C14_StcCmcClears ==
    /\ Ran2(STC, CMC) => ToNumber(cf) = 0
    /\ CmcToggles

C14_Witness ==
    /\ Ran2(STC, CMC) /\ ToNumber(origin.cf) = 1 /\ ToNumber(pre.cf) = 1
    /\ ToNumber(cf) = 0

\* C15 as stated: RLC then RRC leaves A and CF equal to their values before the RLC.
C15_RlcRrcRestoresCarry ==
    Ran2(RLC, RRC) =>
        (regs[7] = origin.regs[7] /\ ToNumber(cf) = ToNumber(origin.cf))

\* C15 amended: RLC then RRC leaves A equal to its value before the RLC and leaves
\* CF equal to bit 7 of that value, whatever CF was before.
C15_RlcRrcRestoresA ==
    Ran2(RLC, RRC) =>
        (regs[7] = origin.regs[7] /\ ToNumber(cf) = origin.regs[7] \div 128)

C15_Witness ==
    /\ Ran2(RLC, RRC) /\ origin.regs[7] = \h81 /\ ToNumber(origin.cf) = 0
    /\ pre.regs[7] = \h03 /\ regs[7] = \h81 /\ ToNumber(cf) = 1

\* the 16-bit value of pair number q (6 is SP) in the fields f
PairValue(f, q) == IF q = 6 THEN f.sp ELSE f.regs[q] * 256 + f.regs[q + 1]
NowValue(q) == IF q = 6 THEN sp ELSE regs[q] * 256 + regs[q + 1]

\* C16: INX rp adds 1 and DCX rp subtracts 1 modulo 65536, neither changes a flag, a
\* register outside the pair, SP (unless it is the pair) or memory, and INX rp
\* followed by DCX rp leaves rp as it was.
C16_InxDcx ==
    /\ (Ran /\ last_opcode \in InxOps \cup DcxOps) =>
          LET q == PairOf(last_opcode)
          IN /\ NowValue(q) = (PairValue(pre, q)
                                  + (IF last_opcode \in InxOps THEN 1 ELSE 65535)) % 65536
             /\ <<sf, zf, hf, pf, cf>> = <<pre.sf, pre.zf, pre.hf, pre.pf, pre.cf>>
             /\ \A i \in (0 .. 7) \ {q, q + 1} : regs[i] = pre.regs[i]
             /\ q # 6 => sp = pre.sp
             /\ mem = pre.mem
    /\ \A q \in {0, 2, 4, 6} :
          Ran2(\h03 + 8 * q, \h0B + 8 * q) =>
              /\ NowValue(q) = PairValue(origin, q)
              /\ regs = origin.regs \/ q # 6

C16_Witness ==
    /\ Ran2(\h33, \h3B) /\ origin.sp = \hFFFF /\ pre.sp = \h0000 /\ sp = \hFFFF
    /\ cf = JSBool(TRUE)

JccOps == {op \in 192 .. 255 : op % 8 = 2}
CccOps == {op \in 192 .. 255 : op % 8 = 4}
RccOps == {op \in 192 .. 255 : op % 8 = 0}

\* the little-endian word the memory image ram holds at x
WordAt(ram, x) == Known(ram, x % 65536) + 256 * Known(ram, (x + 1) % 65536)

\* the image ram with the word w stored at x
WithWord(ram, x, w) == (x % 65536 :> w % 256) @@ ((x + 1) % 65536 :> w \div 256) @@ ram

\* the back-end reads of the opcode at p and of its two operand bytes, in order
Fetch3(p) ==
    /\ Len(bus) >= 3
    /\ SubSeq(bus, 1, 3) = << <<"read", p, "undefined">>,
                              <<"read", (p + 1) % 65536, "undefined">>,
                              <<"read", (p + 2) % 65536, "undefined">> >>

\* C17: Jcc/Ccc/Rcc is taken iff the flag bits 4-5 select equals bit 3.  Jcc and Ccc
\* always read both operand bytes.  Not taken, PC is the address after the
\* instruction and SP and memory are unchanged; taken, Jcc sets PC to the operand,
\* Ccc pushes the address after the instruction and sets PC to the operand, Rcc pops
\* PC.
C17_Conditional ==
    LET p == pre.pc
        target == WordAt(pre.mem, p + 1)
        taken == Taken(last_opcode, pre)
    IN
    /\ (Ran /\ last_opcode \in JccOps) =>
          /\ Fetch3(p)
          /\ pc = IF taken THEN target ELSE (p + 3) % 65536
          /\ sp = pre.sp /\ mem = pre.mem
    /\ (Ran /\ last_opcode \in CccOps) =>
          /\ Fetch3(p)
          /\ pc = IF taken THEN target ELSE (p + 3) % 65536
          /\ sp = IF taken THEN (pre.sp + 65534) % 65536 ELSE pre.sp
          /\ mem = IF taken THEN WithWord(pre.mem, pre.sp + 65534, (p + 3) % 65536)
                   ELSE pre.mem
    /\ (Ran /\ last_opcode \in RccOps) =>
          /\ pc = IF taken THEN WordAt(pre.mem, pre.sp) ELSE (p + 1) % 65536
          /\ sp = IF taken THEN (pre.sp + 2) % 65536 ELSE pre.sp
          /\ mem = pre.mem

C17_Witness ==
    /\ Ran /\ last_opcode = \hC4 /\ ToNumber(pre.zf) = 0
    /\ pre.pc = \hFFFF /\ pre.sp = \hF000
    /\ pc = \hFF00 /\ sp = \hEFFE /\ mem[\hEFFE] = \h02 /\ mem[\hEFFF] = \h00

\* the stack writes of a push of w from the stack pointer top, in order
PushOf(top, w) ==
    << <<"write", (top + 65534) % 65536, w % 256, "true">>,
       <<"write", (top + 65535) % 65536, w \div 256, "true">> >>

\* C18: CALL a16 at p stores (p + 3) mod 65536 on the stack, low byte at SP - 2 and
\* high byte at SP - 1, leaves SP 2 lower and PC = a16; RST o at p does the same
\* with (p + 1) mod 65536 and PC = o AND 0x38; a RET executed next sets PC to that
\* return address and SP to its value before the CALL or RST.
C18_Linkage ==
    LET p == pre.pc
    IN
    /\ (Ran /\ last_opcode \in CallOps) =>
          /\ Fetch3(p) /\ SubSeq(bus, 4, Len(bus)) = PushOf(pre.sp, (p + 3) % 65536)
          /\ mem = WithWord(pre.mem, pre.sp + 65534, (p + 3) % 65536)
          /\ sp = (pre.sp + 65534) % 65536
          /\ pc = WordAt(pre.mem, p + 1)
    /\ (Ran /\ last_opcode \in RstOps) =>
          /\ SubSeq(bus, 2, Len(bus)) = PushOf(pre.sp, (p + 1) % 65536)
          /\ mem = WithWord(pre.mem, pre.sp + 65534, (p + 1) % 65536)
          /\ sp = (pre.sp + 65534) % 65536
          /\ pc = 8 * ((last_opcode \div 8) % 8)
    /\ (steps = 2 /\ pre.last_opcode \in CallOps \cup RstOps /\ last_opcode \in RetOps) =>
          /\ pc = (origin.pc + (IF pre.last_opcode \in CallOps THEN 3 ELSE 1)) % 65536
          /\ sp = origin.sp

C18_Witness ==
    /\ Ran2(\hCD, \hC9) /\ origin.pc = \hFFFE /\ origin.sp = \h0001
    /\ pre.pc = \h2000 /\ pre.sp = \hFFFF
    /\ pc = \h0001 /\ sp = \h0001

AliasOps == {\h08, \h10, \h18, \h20, \h28, \h30, \h38, \hCB, \hD9, \hDD, \hED, \hFD}

\* the documented opcode an undocumented one stands for
DocumentedFor(op) ==
    IF op < 64 THEN \h00
    ELSE IF op = \hCB THEN \hC3 ELSE IF op = \hD9 THEN \hC9 ELSE \hCD

\* the object after instruction() from the state f with the documented opcode in
\* place of the one at f.pc
AfterDocumented(f) ==
    instruction(Object([f EXCEPT !.mem = [@ EXCEPT ![f.pc] = DocumentedFor(f.mem[f.pc])]]))

\* the CPU state of the data model: every field but last_opcode and the memory
CpuState(f) ==
    <<f.pc, f.sp, f.regs, f.sf, f.zf, f.hf, f.pf, f.cf, f.iff, f.iff_pending,
      f.cpu_cycles, f.vcycles>>

\* C19: an undocumented alias (0x08..0x38 for NOP, 0xCB for JMP, 0xD9 for RET, 0xDD,
\* 0xED, 0xFD for CALL) leaves the CPU state, the memory, the returned cycle count
\* and the back-end calls exactly as the documented opcode does from the same state
\* and memory.
C19_Aliases ==
    (Ran /\ last_opcode \in AliasOps) =>
        /\ AfterDocumented(pre).miss = NoMiss
        /\ CpuState(Here(mem)) = CpuState(AfterDocumented(pre))
        /\ result = AfterDocumented(pre).ret
        /\ bus = AfterDocumented(pre).bus
        /\ DOMAIN mem = DOMAIN AfterDocumented(pre).mem
        /\ \A x \in DOMAIN mem :
              \/ mem[x] = AfterDocumented(pre).mem[x]
              \/ x = pre.pc /\ mem[x] = pre.mem[x]
                    /\ AfterDocumented(pre).mem[x] = DocumentedFor(pre.mem[x])

C19_Witness ==
    /\ Ran /\ last_opcode = \hFD /\ pre.pc = \hFFFF /\ pre.sp = \hF000
    /\ pc = \hFF00 /\ sp = \hEFFE /\ cpu_cycles = 17 /\ result = 17
    /\ AfterDocumented(pre).last_opcode = \hCD

\* the registers, flags, SP and memory of the fields f
Parked(f) == <<f.regs, f.sf, f.zf, f.hf, f.pf, f.cf, f.sp, f.mem>>

\* C20: with HLT at PC = p, instruction() leaves PC = p and changes no register, flag,
\* SP or memory byte, and so does every later instruction(); only iff and iff_pending
\* move, when an EI was pending: the first HLT step sets iff and clears iff_pending.
C20_HaltParks ==
    /\ pc = origin.pc /\ Parked(Here(mem)) = Parked(origin)
    /\ Ran =>
          /\ last_opcode = HLT /\ bus[1] = <<"read", pc, "undefined">>
          /\ \A i \in 2 .. Len(bus) : bus[i][1] = "interrupt"
          /\ iff_pending = 0
          /\ iff = (origin.iff \/ origin.iff_pending = 1)
    /\ (Ran /\ pre.iff_pending = 0) => (iff = pre.iff /\ Interrupts(TRUE) = {})

C20_Witness ==
    /\ steps = 3 /\ last_opcode = HLT /\ pc = \h0000 /\ origin.pc = \h0000
    /\ origin.iff_pending = 1 /\ ~origin.iff /\ iff /\ origin.cf = JSBool(TRUE)
    /\ cf = JSBool(TRUE)

XTHL == \hE3

\* the memory.read and memory.write calls of the last instruction(), in order
IsAccess(e) == e[1] \in {"read", "write"}
Accesses == SelectSeq(bus, IsAccess)

\* the stack_request argument of a memory call
RequestOf(e) == IF e[1] = "read" THEN e[3] ELSE e[4]

\* the accesses an instruction makes before its stack portion: the opcode fetch, and
\* the two operand bytes of a call
FetchesOf(op) == IF op \in CallOps \cup CccOps THEN 3 ELSE 1

\* the stack portion of an instruction: the kinds of its stack accesses, in order;
\* f holds the flags before the instruction
StackPortion(op, f) ==
    IF op \in PushOps \cup {PUSH_PSW} \cup RstOps \cup CallOps THEN <<"write", "write">>
    ELSE IF op \in PopOps \cup {POP_PSW} \cup RetOps THEN <<"read", "read">>
    ELSE IF op = XTHL THEN <<"read", "read", "write", "write">>
    ELSE IF op \in CccOps /\ Taken(op, f) THEN <<"write", "write">>
    ELSE IF op \in RccOps /\ Taken(op, f) THEN <<"read", "read">>
    ELSE <<>>

\* C21: the accesses of the stack portion of PUSH, POP, XTHL, RET, taken Rcc, CALL,
\* taken Ccc and RST carry stack_request = true; the opcode fetch, the operand
\* fetches and every access of any other instruction carry one that is not true.
C21_StackRequest ==
    Ran =>
        LET k == FetchesOf(last_opcode)
            portion == StackPortion(last_opcode, pre)
        IN
        /\ portion # <<>> => Len(Accesses) = k + Len(portion)
        /\ \A i \in 1 .. Len(Accesses) :
              IF portion # <<>> /\ i > k
              THEN /\ Accesses[i][1] = portion[i - k]
                   /\ RequestOf(Accesses[i]) = "true"
              ELSE RequestOf(Accesses[i]) # "true"

C21_Witness ==
    /\ Ran /\ last_opcode = XTHL /\ Len(bus) = 5
    /\ bus[1] = <<"read", pre.pc, "undefined">>
    /\ bus[2] = <<"read", pre.sp, "true">>
    /\ bus[5] = <<"write", (pre.sp + 1) % 65536, pre.regs[4], "true">>


\* the arguments of the io.interrupt calls of the last instruction(), in order
IsInterrupt(e) == e[1] = "interrupt"
Notified == [i \in 1 .. Len(SelectSeq(bus, IsInterrupt)) |-> SelectSeq(bus, IsInterrupt)[i][2]]

\* C22 as stated: interrupt is called once with the new value in a step where iff
\* changes, and not at all in a step where iff keeps its value.
C22_OnlyOnTransitions ==
    Ran => Notified = IF iff # pre.iff THEN <<iff>> ELSE <<>>

\* C22: interrupt(false) is called in every DI step and interrupt(true) in every
\* step where iff_pending counts down from 1 to 0, whether or not iff changes, and in
\* no other step; when iff changes in a step the last call carries the new value.
C22_NotifiedOnAssignment ==
    Ran =>
        /\ Notified = (IF last_opcode = DI THEN <<FALSE>> ELSE <<>>)
                      \o (IF mid.iff_pending = 1 THEN <<TRUE>> ELSE <<>>)
        /\ iff # pre.iff => (Notified # <<>> /\ Notified[Len(Notified)] = iff)

C22_Witness ==
    /\ Ran /\ last_opcode = DI /\ ~pre.iff /\ pre.iff_pending = 0
    /\ ~iff /\ Notified = <<FALSE>>


\* the values the handlers assign to cpu_cycles
CycleCounts == {4, 5, 7, 10, 11, 13, 16, 17, 18}

\* C23: for every opcode byte 0..255 execute() finds a handler: the 'Unhandled
\* opcode' branch is never taken, and every instruction() returns a cycle count,
\* also the first one of a new object, whose cpu_cycles is still undefined.
C23_Exhaustive ==
    Ran =>
        /\ last_opcode \in 0 .. 255
        /\ \A i \in 1 .. Len(bus) : bus[i][1] # "alert"
        /\ result \in CycleCounts /\ result = cpu_cycles

C23_Witness ==
    /\ Ran /\ origin.cpu_cycles = Undefined /\ last_opcode = \hFD
    /\ result = 17


----------------------------------------------------------------------------
(* SpecMove: one data-movement instruction, XCHG; XCHG, CMA; CMA, XTHL; XTHL *)

\* bound: instructions in one run
MoveCalls == 2

XCHG == \hEB
CMA == \h2F

\* MVI, LXI, LDA, STA, LHLD, SHLD, LDAX, STAX, MOV, XCHG, XTHL, SPHL, PCHL
MoveOps ==
    {op \in 0 .. 63 : op % 8 = 6} \cup {\h01, \h11, \h21, \h31}
    \cup {\h3A, \h32, \h2A, \h22, \h0A, \h1A, \h02, \h12}
    \cup ((\h40 .. \h7F) \ {HLT}) \cup {XCHG, XTHL, \hF9, \hE9}

InitMove ==
    \/ \E op \in MoveOps, file \in StackFiles, f \in FlagFiles, top \in {\hF000, \hFFFF} :
          Ready(<<op, \h34, \h12>>, NoRam, file, top, f)
    \/ \E d \in Edges, e \in Edges, h \in Edges, l \in Edges :
          Ready(<<XCHG, XCHG>>, NoRam, RegFileOf(<<\h12, \h34, d, e, h, l, 0, \hFF>>), \hF000,
                <<JSBool(TRUE), JSBool(FALSE), JSBool(FALSE), JSNum(1), JSBool(TRUE)>>)
    \/ \E av \in 0 .. 255 :
          Ready(<<CMA, CMA>>, NoRam, RegFileOf(<<1, 2, 3, 4, 5, 6, 0, av>>), \hF000,
                <<JSBool(TRUE), JSBool(FALSE), JSBool(FALSE), JSNum(1), JSBool(TRUE)>>)
    \/ \E top \in StackTops \cup {\h00FF, \h0100, \h0101}, lo \in Edges, hi \in {\h00, \hE3, \hFF},
          file \in StackFiles, f \in FlagFiles :
          Ready(<<XTHL, XTHL>>, (top :> lo) @@ ((top + 1) % 65536 :> hi), file, top, f)

ExecuteMove == Step({}, {\h00}, MoveCalls)

SpecMove == InitMove /\ [][ExecuteMove]_vars

\* the five flags of the fields f, as the object holds them
FlagsHeld(f) == <<f.sf, f.zf, f.hf, f.pf, f.cf>>

\* C24: MVI, LXI, LDA, STA, LHLD, SHLD, LDAX, STAX, every MOV, XCHG, XTHL, SPHL and
\* PCHL leave SF, ZF, HF, PF and CF as they were; XCHG executed twice leaves D, E, H
\* and L unchanged and CMA executed twice leaves A unchanged.
C24_MovesKeepFlags ==
    /\ (Ran /\ last_opcode \in MoveOps) => FlagsHeld(Here(mem)) = FlagsHeld(pre)
    /\ Ran2(XCHG, XCHG) => \A i \in 2 .. 5 : regs[i] = origin.regs[i]
    /\ Ran2(CMA, CMA) => regs[7] = origin.regs[7]

C24_Witness ==
    /\ Ran2(XCHG, XCHG)
    /\ origin.regs[2] = \h7F /\ origin.regs[3] = \h01 /\ origin.regs[4] = \h80
    /\ origin.regs[5] = \hFF
    /\ pre.regs[2] = \h80 /\ pre.regs[3] = \hFF /\ pre.regs[4] = \h7F /\ pre.regs[5] = \h01
    /\ regs = origin.regs /\ sf = JSBool(TRUE) /\ cf = JSBool(TRUE)


----------------------------------------------------------------------------
(* SpecTest: execute_test(filename, success_check) of the test driver       *)

\* bound: iterations of the driver's loop in one run
TestCalls == 10

\* Memory.read of the driver: every byte is 0 until it is written
RamByte(ram, x) == IF And(x, \hFFFF) \in DOMAIN ram THEN ram[And(x, \hFFFF)] ELSE 0

\* console.flush and console.putchar: the lines logged and the line being collected
flush(h) == [h EXCEPT !.output = Append(@, h.line), !.line = <<>>]

putchar(h, c) ==
    IF c = 10 THEN h
    ELSE IF c = 13 THEN flush(h) ELSE [h EXCEPT !.line = Append(@, c)]

\* for (i = cpu.de(); mem.read(i) != 0x24; i += 1) console.putchar(mem.read(i))
RECURSIVE print_till_dollar(_, _, _)
print_till_dollar(h, ram, i) ==
    IF RamByte(ram, i) = \h24 THEN h
    ELSE print_till_dollar(putchar(h, RamByte(ram, i)), ram, i + 1)

\* the bytes that loop passes to putchar: those from i up to the first '$'
till_dollar(ram, i) ==
    LET n == CHOOSE k \in 0 .. 65535 :
                 /\ RamByte(ram, i + k) = \h24
                 /\ \A j \in 0 .. k - 1 : RamByte(ram, i + j) # \h24
    IN [j \in 1 .. n |-> RamByte(ram, i + j - 1)]

\* if (pc == 0x0005) { ... }: BDOS functions 9 and 2; with no '$' in memory the
\* loop of function 9 never ends
bdos(h, s) ==
    IF s.pc # \h0005 THEN [h EXCEPT !.emulated = 0]
    ELSE
        LET fn == reg(s, 1).ret
            h9 == IF fn # 9 THEN h
                  ELSE IF \A x \in DOMAIN s.mem : s.mem[x] # \h24
                       THEN [h EXCEPT !.returned = "hung"]
                       ELSE [print_till_dollar(h, s.mem, de(s)) EXCEPT
                                !.success = 1,
                                !.strings = Append(@, till_dollar(s.mem, de(s)))]
            h2 == IF fn = 2 /\ h9.returned # "hung" THEN putchar(h9, reg(s, 3).ret) ELSE h9
        IN [h2 EXCEPT !.emulated = IF fn \in {2, 9} THEN fn ELSE 0]

\* a driver that reports success whatever success_check asks
after_instruction_unchecked(h, newpc) ==
    IF newpc = 0
    THEN [flush(h) EXCEPT !.returned = "true", !.why = "zero", !.instructions = @ + 1]
    ELSE [h EXCEPT !.instructions = @ + 1]

\* if (cpu.pc == 0) { ... return success_check && !success ? false : true }
after_instruction(h, newpc) ==
    IF newpc = 0
    THEN [flush(h) EXCEPT
             !.returned = IF h.success_check /\ h.success = 0 THEN "false" ELSE "true",
             !.why = "zero", !.instructions = @ + 1]
    ELSE [h EXCEPT !.instructions = @ + 1]

\* one iteration of while (1)
TestIteration ==
    /\ steps < TestCalls /\ harness.returned = "no"
    /\ IF RamByte(mem, pc) = HLT
       THEN /\ harness' = [flush(harness) EXCEPT !.returned = "false", !.why = "hlt",
                                                 !.emulated = 0]
            /\ UNCHANGED <<cpuvars, mem, bus, result, pre, mid>>
       ELSE IF bdos(harness, This(mem, <<>>)).returned = "hung"
       THEN /\ harness' = bdos(harness, This(mem, <<>>))
            /\ UNCHANGED <<cpuvars, mem, bus, result, pre, mid>>
       ELSE \E r \in Outcomes(mem, <<>>, {}, {\h00}) :
               /\ Assign(r)
               /\ bus' = r.bus /\ result' = r.ret /\ pre' = r.pre /\ mid' = r.mid
               /\ harness' = after_instruction(bdos(harness, This(mem, <<>>)), r.pc)
    /\ steps' = steps + 1
    /\ UNCHANGED origin

\* messages of a test program, the first without the closing '$'
Messages ==
    << <<63>>,
       <<56, 48, 56, 48, 32, 80, 114, 101, 108, 105, 109, 105, 110, 97, 114, 121, 32, 116,
         101, 115, 116, 115, 32, 99, 111, 109, 112, 108, 101, 116, 101, 13, 10, 36>>,
       <<67, 80, 85, 32, 70, 65, 73, 76, 69, 68, 13, 10, 36>> >>
MessageAt(k) == \h0100 + 64 * k

\* MVI C, fn; LXI D, message k; CALL 5
CallBdos(c) ==
    <<\h0E, c[1], \h11, MessageAt(c[2]) % 256, MessageAt(c[2]) \div 256, \hCD, \h05, \h00>>

\* test files: up to two BDOS calls, then JMP 0 or HLT, and the messages they use;
\* the message without '$' is the only one of its file
Scripts ==
    LET Calls == {<<fn, k>> : fn \in {2, 9}, k \in 2 .. 3}
    IN {<<>>} \cup {<<c>> : c \in Calls} \cup {<<c1, c2>> : c1 \in Calls, c2 \in Calls}
       \cup {<< <<9, 1>> >>, << <<2, 1>>, <<9, 1>> >>}
Tails == {<<\hC3, \h00, \h00>>, <<HLT>>}

TestFile(script, tail) ==
    LET code == (IF Len(script) >= 1 THEN CallBdos(script[1]) ELSE <<>>)
                \o (IF Len(script) = 2 THEN CallBdos(script[2]) ELSE <<>>) \o tail
        text(k) == IF \E i \in 1 .. Len(script) : script[i][2] = k
                   THEN ImageAt(MessageAt(k), Messages[k]) ELSE NoRam
    IN Image(code) @@ text(1) @@ text(2) @@ text(3)

\* execute_test up to the loop: the file loaded, RET injected at 0x0005, a new
\* I8080 and cpu.jump(0x100)
InitTest ==
    \E script \in Scripts, tail \in Tails, check \in BOOLEAN :
        /\ mem = (\h0005 :> \hC9) @@ TestFile(script, tail)
        /\ pc = \h0100 /\ sp = 0 /\ iff = FALSE /\ iff_pending = 0
        /\ sf = JSNum(0) /\ pf = JSNum(0) /\ hf = JSNum(0) /\ zf = JSNum(0) /\ cf = JSNum(0)
        /\ regs = [i \in 0 .. 7 |-> 0]
        /\ last_opcode = 0
        /\ cpu_cycles = Undefined /\ vcycles = Undefined
        /\ bus = <<>> /\ result = cpu_cycles /\ steps = 0
        /\ pre = Here(mem) /\ mid = Here(mem) /\ origin = Here(mem)
        /\ harness = [success |-> 0, success_check |-> check, returned |-> "no",
                      why |-> "", line |-> <<>>, output |-> <<>>, strings |-> <<>>,
                      emulated |-> 0, instructions |-> 0]

SpecTest == InitTest /\ [][TestIteration]_vars


\* "Preliminary tests complete"
Preliminary ==
    <<80, 114, 101, 108, 105, 109, 105, 110, 97, 114, 121, 32, 116, 101, 115, 116, 115, 32,
      99, 111, 109, 112, 108, 101, 116, 101>>

\* the string str contains the string part
Contains(str, part) ==
    \E k \in 0 .. Len(str) - Len(part) : SubSeq(str, k + 1, k + Len(part)) = part

\* some string printed through BDOS function 9 contains "Preliminary tests complete"
PrintedPreliminary ==
    \E i \in 1 .. Len(harness.strings) : Contains(harness.strings[i], Preliminary)

\* what C25 says of the loop whatever the string: HLT is never executed and ends the
\* test with false before the CPU is stepped; the test returns once PC is 0 after a
\* step; BDOS functions are emulated only in iterations that begin with PC = 0x0005
HarnessLoop ==
    /\ last_opcode # HLT
    /\ harness.instructions = IF harness.why = "hlt" \/ harness.returned = "hung"
                              THEN steps - 1 ELSE steps
    /\ harness.why = "hlt" <=> (harness.returned = "false" /\ RamByte(mem, pc) = HLT)
    /\ harness.why = "zero" <=> (steps > 0 /\ pc = 0)
    /\ harness.why = "zero" => harness.returned \in {"true", "false"}
    /\ harness.emulated # 0 =>
          IF harness.returned = "hung" THEN pc = \h0005 ELSE pre.pc = \h0005
    /\ harness.success = (IF harness.strings = <<>> THEN 0 ELSE 1)

\* C25 as stated: ..., and when PC reaches 0 the result is true, except that with
\* success_check set it is false if no "Preliminary tests complete" string was
\* printed through BDOS function 9.
C25_PreliminaryRequired ==
    /\ HarnessLoop
    /\ harness.why = "zero" =>
          harness.returned = IF harness.success_check /\ ~PrintedPreliminary
                             THEN "false" ELSE "true"

\* C25: execute_test returns false without stepping the CPU as soon as the byte at
\* PC is 0x76; it returns when PC is 0 after a step, with true, except that with
\* success_check set it returns false if nothing was printed through BDOS function
\* 9, whatever the string; BDOS functions are emulated only in steps that begin with
\* PC = 0x0005.
C25_AnyStringCounts ==
    /\ HarnessLoop
    /\ harness.why = "zero" =>
          harness.returned = IF harness.success_check /\ harness.strings = <<>>
                             THEN "false" ELSE "true"

C25_Witness ==
    /\ harness.why = "zero" /\ harness.success_check /\ harness.returned = "true"
    /\ Len(harness.strings) = 1 /\ ~PrintedPreliminary
    /\ harness.output = <<SubSeq(Messages[3], 1, 10), <<>> >>
    /\ pc = 0 /\ pre.pc = \h0108


----------------------------------------------------------------------------
(* SpecEdge: one instruction at the top of memory, the stack at the wrap    *)

\* bound: instructions in one run
EdgeCalls == 1

\* the instruction starts here and is any opcode; its operands are bytes of Fill
EdgeEntry == {\hFFFD, \hFFFE, \hFFFF}

InitEdge ==
    /\ mem = NoRam
    /\ pc \in EdgeEntry /\ sp \in {\h0000, \h0001, \hFFFF}
    /\ regs \in RegFiles
    /\ \E f \in FlagFiles :
          sf = f[1] /\ zf = f[2] /\ hf = f[3] /\ pf = f[4] /\ cf = f[5]
    /\ iff = FALSE /\ iff_pending = 0 /\ last_opcode = \h00
    /\ cpu_cycles = 4 /\ vcycles = T4
    /\ Observed

ExecuteEdge == Step(EdgeEntry, Fill, EdgeCalls)

SpecEdge == InitEdge /\ [][ExecuteEdge]_vars

SHLD == \h22
LHLD == \h2A

\* the accesses of the last instruction() after its opcode and operand fetches
DataAccesses(fetches) == SubSeq(Accesses, fetches + 1, Len(Accesses))

\* C26: every address passed to memory.read/memory.write is in 0..65535 and every
\* written value is in 0..255; PUSH with SP = 0x0001 sets SP = 0xFFFF and writes
\* the low byte to 0xFFFF and then the high byte to 0x0000; SHLD, LHLD, XTHL and POP
\* at address 0xFFFF access 0xFFFF and then 0x0000.
C26_AddressesWrap ==
    LET p == pre.pc
        direct == WordAt(pre.mem, p + 1)
        h == pre.regs[4]
        l == pre.regs[5]
    IN
    Ran =>
        /\ \A i \in 1 .. Len(Accesses) :
              /\ Accesses[i][2] \in 0 .. 65535
              /\ Accesses[i][1] = "write" => Accesses[i][3] \in 0 .. 255
        /\ (last_opcode \in PushOps /\ pre.sp = \h0001) =>
              /\ sp = \hFFFF
              /\ DataAccesses(1) =
                    << <<"write", \hFFFF, pre.regs[PairOf(last_opcode) + 1], "true">>,
                       <<"write", \h0000, pre.regs[PairOf(last_opcode)], "true">> >>
        /\ (last_opcode = PUSH_PSW /\ pre.sp = \h0001) =>
              /\ sp = \hFFFF
              /\ Len(Accesses) = 3
              /\ Accesses[2][2] = \hFFFF
              /\ Accesses[3] = <<"write", \h0000, pre.regs[7], "true">>
        /\ (last_opcode = SHLD /\ direct = \hFFFF) =>
              DataAccesses(3) = << <<"write", \hFFFF, l, "undefined">>,
                                   <<"write", \h0000, h, "undefined">> >>
        /\ (last_opcode = LHLD /\ direct = \hFFFF) =>
              /\ DataAccesses(3) = << <<"read", \hFFFF, "undefined">>,
                                      <<"read", \h0000, "undefined">> >>
              /\ regs[5] = Known(pre.mem, \hFFFF) /\ regs[4] = Known(pre.mem, \h0000)
        /\ (last_opcode = XTHL /\ pre.sp = \hFFFF) =>
              DataAccesses(1) = << <<"read", \hFFFF, "true">>, <<"read", \h0000, "true">>,
                                   <<"write", \hFFFF, l, "true">>,
                                   <<"write", \h0000, h, "true">> >>
        /\ (last_opcode \in PopOps \cup {POP_PSW} /\ pre.sp = \hFFFF) =>
              /\ sp = \h0001
              /\ DataAccesses(1) = << <<"read", \hFFFF, "true">>, <<"read", \h0000, "true">> >>

C26_Witness ==
    /\ Ran /\ last_opcode = \hE5 /\ pre.sp = \h0001 /\ pre.regs[4] = \h01
    /\ pre.pc = \hFFFF
    /\ sp = \hFFFF /\ mem[\hFFFF] = \h00 /\ mem[\h0000] = \h01
    /\ bus[3] = <<"write", \h0000, \h01, "true">>


\* the length in bytes of the instruction with opcode op
LengthOf(op) ==
    IF op \in {\h01, \h11, \h21, \h31, SHLD, LHLD, \h32, \h3A, \hC3, \hCB}
              \cup JccOps \cup CallOps \cup CccOps
    THEN 3
    ELSE IF op \in {x \in 0 .. 63 : x % 8 = 6}
                   \cup {\hC6, \hCE, \hD6, \hDE, \hE6, \hEE, \hF6, \hFE, \hDB, \hD3}
    THEN 2 ELSE 1

\* the instruction transfers control: JMP, PCHL, CALL, RET, RST, and Jcc, Ccc, Rcc
\* when the condition holds in the flags of f
Transfers(op, f) ==
    \/ op \in {\hC3, \hCB, \hE9} \cup CallOps \cup RetOps \cup RstOps
    \/ op \in JccOps \cup CccOps \cup RccOps /\ Taken(op, f)

\* C27: an instruction that is neither a taken control transfer nor HLT leaves
\* PC = (PC + L) mod 65536, L its length; the opcode and the operand bytes are read
\* from consecutive addresses mod 65536, the low byte of a 16-bit operand first; a
\* 3-byte instruction at 0xFFFE reads 0xFFFF and then 0x0000 and, when it is no
\* branch, leaves PC = 0x0001.
C27_LengthAndWrap ==
    LET p == pre.pc
        n == LengthOf(last_opcode)
    IN
    Ran =>
        /\ Len(Accesses) >= n
        /\ \A i \in 1 .. n : Accesses[i] = <<"read", (p + i - 1) % 65536, "undefined">>
        /\ (~Transfers(last_opcode, pre) /\ last_opcode # HLT) => pc = (p + n) % 65536
        /\ last_opcode \in {\h01, \h11, \h21} =>
              NowValue(PairOf(last_opcode)) = WordAt(pre.mem, p + 1)
        /\ last_opcode = \h31 => sp = WordAt(pre.mem, p + 1)
        /\ (last_opcode \in {\hC3, \hCB} \cup CallOps) => pc = WordAt(pre.mem, p + 1)
        /\ (p = \hFFFE /\ n = 3) =>
              /\ Accesses[2][2] = \hFFFF /\ Accesses[3][2] = \h0000
              /\ (~Transfers(last_opcode, pre)) => pc = \h0001

C27_Witness ==
    /\ Ran /\ last_opcode = \h21 /\ pre.pc = \hFFFE
    /\ bus = << <<"read", \hFFFE, "undefined">>, <<"read", \hFFFF, "undefined">>,
                <<"read", \h0000, "undefined">> >>
    /\ mem[\hFFFF] = \hFF /\ mem[\h0000] = \h00
    /\ regs[4] = \h00 /\ regs[5] = \hFF /\ pc = \h0001


\* instructions with M as source, and with M as destination
ReadsM == {op \in \h40 .. \hBF : op % 8 = 6 /\ op # HLT} \cup {\h34, \h35}
WritesM == {op \in \h70 .. \h77 : op # HLT} \cup {\h34, \h35, \h36}

\* the byte an instruction with destination M stores; f holds the fields before it
StoredInM(op, f) ==
    LET old == Known(f.mem, f.regs[4] * 256 + f.regs[5])
    IN IF op = \h34 THEN (old + 1) % 256
       ELSE IF op = \h35 THEN (old + 255) % 256
       ELSE IF op = \h36 THEN Known(f.mem, (f.pc + 1) % 65536)
       ELSE f.regs[op % 8]

\* C28: regs[6] always holds its reset value 0; an instruction that reads register 6
\* reads memory[HL]; an instruction that writes register 6 (MOV M,r, MVI M, INR M,
\* DCR M) writes memory[HL] and changes no entry of regs.
C28_MIsMemory ==
    LET at == pre.regs[4] * 256 + pre.regs[5]
        fetched == LengthOf(last_opcode)
    IN
    /\ regs[6] = 0
    /\ (Ran /\ last_opcode \in ReadsM) =>
          /\ Accesses[fetched + 1] = <<"read", at, "undefined">>
          /\ last_opcode \in \h40 .. \h7F =>
                regs = [pre.regs EXCEPT ![(last_opcode \div 8) % 8] = Known(pre.mem, at)]
    /\ (Ran /\ last_opcode \in WritesM) =>
          /\ regs = pre.regs
          /\ Accesses[Len(Accesses)] =
                <<"write", at, StoredInM(last_opcode, pre), "undefined">>
          /\ Known(mem, at) = StoredInM(last_opcode, pre)
    /\ (Ran /\ last_opcode \in ReadsM \cup WritesM) =>
          Len(Accesses) = fetched + (IF last_opcode \in ReadsM THEN 1 ELSE 0)
                                  + (IF last_opcode \in WritesM THEN 1 ELSE 0)

C28_Witness ==
    /\ Ran /\ last_opcode = \h34 /\ pre.regs[4] = \hFF /\ pre.regs[5] = \hFF
    /\ pre.mem[\hFFFF] = \hFF /\ mem[\hFFFF] = \h00
    /\ regs = pre.regs /\ regs[6] = 0 /\ ToNumber(zf) = 1


\* C29: XTHL reads memory[SP] and memory[SP+1] and then writes them; afterwards
\* L = old memory[SP], H = old memory[SP+1], memory[SP] = old L, memory[SP+1] = old
\* H, and SP, the other registers and the flags are unchanged; XTHL executed twice
\* restores HL and both memory bytes.
C29_Xthl ==
    LET top == pre.sp
        next == (pre.sp + 1) % 65536
    IN
    /\ (Ran /\ last_opcode = XTHL) =>
          /\ DataAccesses(1) =
                << <<"read", top, "true">>, <<"read", next, "true">>,
                   <<"write", top, pre.regs[5], "true">>,
                   <<"write", next, pre.regs[4], "true">> >>
          /\ regs = [pre.regs EXCEPT ![5] = Known(pre.mem, top),
                                     ![4] = Known(pre.mem, next)]
          /\ mem = (top :> pre.regs[5]) @@ (next :> pre.regs[4]) @@ pre.mem
          /\ sp = pre.sp /\ FlagsHeld(Here(mem)) = FlagsHeld(pre)
    /\ Ran2(XTHL, XTHL) =>
          /\ regs = origin.regs
          /\ Known(mem, sp) = Known(origin.mem, sp)
          /\ Known(mem, (sp + 1) % 65536) = Known(origin.mem, (sp + 1) % 65536)

C29_Witness ==
    /\ Ran2(XTHL, XTHL) /\ origin.sp = \hFFFF
    /\ origin.regs[4] = \h9A /\ origin.regs[5] = \hBC
    /\ origin.mem[\hFFFF] = \h7F /\ origin.mem[\h0000] = \hE3
    /\ pre.regs[4] = \hE3 /\ pre.regs[5] = \h7F
    /\ pre.mem[\hFFFF] = \hBC /\ pre.mem[\h0000] = \h9A
    /\ regs[4] = \h9A /\ regs[5] = \hBC /\ mem[\hFFFF] = \h7F /\ mem[\h0000] = \hE3


----------------------------------------------------------------------------
(* SpecPart: one instruction that sets some of the flags only              *)

\* bound: instructions in one run
PartCalls == 1

RAL == \h17
RAR == \h1F
DadOps == {\h09, \h19, \h29, \h39}

InitPart ==
    \/ \E op \in DadOps, w \in WordEdges, v \in WordEdges, f \in FlagFiles :
          Ready(<<op>>, NoRam,
                [FileWith(PairOf(op), v) EXCEPT ![4] = w \div 256, ![5] = w % 256],
                TopWith(PairOf(op), v), f)
    \/ \E op \in InrDcrOps, v \in Edges, f \in FlagFiles :
          Ready(<<op>>, (Data :> v),
                IF OperandReg(op) \in {4, 5, 6}
                THEN RegFileOf(<<1, 2, 3, 4, Data \div 256, Data % 256, 0, 7>>)
                ELSE [RegFileOf(<<1, 2, 3, 4, Data \div 256, Data % 256, 0, 7>>)
                         EXCEPT ![OperandReg(op)] = v],
                \hF000, f)
    \/ \E op \in {RLC, RRC, RAL, RAR}, av \in Edges, f \in FlagFiles :
          Ready(<<op>>, NoRam, RegFileOf(<<1, 2, 3, 4, 5, 6, 0, av>>), \hF000, f)

ExecutePart == Step({}, {\h00}, PartCalls)

SpecPart == InitPart /\ [][ExecutePart]_vars

\* C30: INR and DCR (register or M) leave CF as it was; RLC, RRC, RAL, RAR and DAD
\* leave SF, ZF, HF and PF as they were; DAD rp sets HL = (HL + rp) mod 65536 and
\* CF = 1 iff HL + rp > 65535, for rp = BC, DE, HL and SP, and changes nothing else.
C30_PartialFlags ==
    LET total == PairValue(pre, 4) + PairValue(pre, PairOf(last_opcode))
    IN
    /\ (Ran /\ last_opcode \in InrDcrOps) => cf = pre.cf
    /\ (Ran /\ last_opcode \in {RLC, RRC, RAL, RAR} \cup DadOps) =>
          <<sf, zf, hf, pf>> = <<pre.sf, pre.zf, pre.hf, pre.pf>>
    /\ (Ran /\ last_opcode \in DadOps) =>
          /\ NowValue(4) = total % 65536
          /\ ToNumber(cf) = (IF total > 65535 THEN 1 ELSE 0)
          /\ regs = [pre.regs EXCEPT ![4] = (total % 65536) \div 256, ![5] = total % 256]
          /\ sp = pre.sp /\ mem = pre.mem

C30_Witness ==
    /\ Ran /\ last_opcode = \h39 /\ pre.sp = \h0001
    /\ pre.regs[4] = \hFF /\ pre.regs[5] = \hFF /\ pre.cf = JSNum(0) /\ pre.zf = JSNum(0)
    /\ regs[4] = \h00 /\ regs[5] = \h00 /\ ToNumber(cf) = 1 /\ zf = JSNum(0)


----------------------------------------------------------------------------
(* SpecBcd: ADC with an operand, then DAA                                   *)

\* bound: instructions in one run
BcdCalls == 2

\* ADC B..A, ADC M and ACI
AdcOps == (\h88 .. \h8F) \cup {\hCE}

\* the bytes whose two nibbles are decimal digits, and some of them
BcdBytes == {b \in 0 .. 255 : b % 16 <= 9 /\ b \div 16 <= 9}
BcdEdges == {\h00, \h01, \h09, \h10, \h45, \h55, \h90, \h99}

\* op; DAA at Program with A = x, the operand of op = y and CF = c
Summands(op, x, y, c) ==
    LET file == RegFileOf(<<0, 0, 0, 0, Data \div 256, Data % 256, 0, x>>)
    IN Ready(IF Immediate(op) THEN <<op, y, DAA>> ELSE <<op, DAA>>,
             IF ~Immediate(op) /\ OperandReg(op) = 6 THEN (Data :> y) ELSE NoRam,
             IF Immediate(op) \/ OperandReg(op) \in {6, 7} THEN file
             ELSE [file EXCEPT ![OperandReg(op)] = y],
             \hF000,
             <<JSNum(0), JSNum(1), JSNum(1), JSNum(0), c>>)

InitBcd ==
    \/ \E x \in BcdBytes, y \in BcdBytes, c \in Bits : Summands(\h88, x, y, c)
    \/ \E op \in AdcOps, x \in BcdEdges, y \in BcdEdges, c \in JSFlags :
          Summands(op, x, y, c)

ExecuteBcd == Step({}, {\h00}, BcdCalls)

SpecBcd == InitBcd /\ [][ExecuteBcd]_vars

\* the number a packed-BCD byte stands for, and the packed-BCD byte of a number
DecimalOf(b) == 10 * (b \div 16) + (b % 16)
PackedOf(n) == 16 * (n \div 10) + (n % 10)

\* C31: for packed-BCD bytes x and y and carry-in c, ADC with operand y from A = x
\* and CF = c followed by DAA leaves A the packed-BCD byte of (x + y + c) mod 100
\* and CF = 1 iff x + y + c >= 100, the values read as decimal.
C31_DecimalAddition ==
    \A op \in AdcOps :
        (/\ Ran2(op, DAA)
         /\ origin.regs[7] \in BcdBytes /\ OperandOf(op, origin) \in BcdBytes) =>
            LET total == DecimalOf(origin.regs[7]) + DecimalOf(OperandOf(op, origin))
                         + ToNumber(origin.cf)
            IN /\ regs[7] = PackedOf(total % 100)
               /\ ToNumber(cf) = (IF total >= 100 THEN 1 ELSE 0)

C31_Witness ==
    /\ Ran2(\h88, DAA) /\ origin.regs[7] = \h58 /\ origin.regs[0] = \h49
    /\ origin.cf = JSNum(1)
    /\ pre.regs[7] = \hA2 /\ ToNumber(pre.hf) = 1 /\ ToNumber(pre.cf) = 0
    /\ regs[7] = \h08 /\ ToNumber(cf) = 1


----------------------------------------------------------------------------
(* SpecEi: programs of NOP, EI and DI run from reset, any opcode third      *)

\* bound: instructions in one run
EiCalls == 4

\* the byte at 0x0002 is any opcode; the others are NOP, DI or EI
EiWide == {\h0002}
EiFill == {\h00, DI, EI}

ExecuteEi == Step(EiWide, EiFill, EiCalls)

SpecEi == InitFresh /\ [][ExecuteEi]_vars

\* the last instruction() turned iff on, or off
TurnedOn == Ran /\ ~pre.iff /\ iff
TurnedOff == Ran /\ pre.iff /\ ~iff

\* what C32 says of one step: iff goes from false to true only in a step that is
\* not an EI and follows an EI, and from true to false only in a DI
EnabledByEi ==
    /\ TurnedOn => (last_opcode # EI /\ pre.last_opcode = EI)
    /\ TurnedOff => last_opcode = DI

\* C32: from reset, if iff is false before a step and true after it, the step is not
\* an EI and the step before it was an EI; no instruction other than DI sets iff to
\* false; and in a run that contains no EI iff never becomes true.
C32_OnlyEiEnables ==
    /\ []EnabledByEi
    /\ ([](last_opcode # EI)) => [](~iff)

C32_Witness ==
    /\ steps = 3 /\ TurnedOn /\ last_opcode = \hC7 /\ pre.last_opcode = EI
    /\ origin.iff = FALSE /\ mem[\h0000] = \h00 /\ mem[\h0001] = EI
    /\ Interrupts(TRUE) # {}


====
